---------------------------- MODULE Spec2Model ----------------------------
(***************************************************************************)
(* A model of the VDF codec (github.com/woozymasta/vdf): the Document/Node *)
(* AST, the text lexer and parser, the binary decoder, the text and binary *)
(* encoders, the manual streaming encoder, and the Decoder with its event  *)
(* iterator.                                                               *)
(*                                                                         *)
(* Strings are sequences of bytes (0..255).  The alphabet of the model is  *)
(* ASCII plus the byte 0xFF, which is never valid UTF-8: Go decodes it to  *)
(* the rune U+FFFD, which strings.Builder.WriteRune writes as EF BF BD.    *)
(* An optional value (a Go pointer that may be nil) is a sequence of       *)
(* length 0 (nil) or 1.  A uint32 is a pair <<hi, lo>> of 16-bit halves,   *)
(* so that the whole range 0..2^32-1 is representable.                     *)
(***************************************************************************)
EXTENDS Integers, Sequences, FiniteSets, TLC

VARIABLES
    \* ---- Encoder (manual streaming and EncodeDocument)
    opts,                  \* Encoder.opts after normalizeEncodeOptions
    manualDepth,           \* Encoder.manualDepth
    manualBinaryUsed,      \* Encoder.manualBinaryUsed
    manualBinaryFinished,  \* Encoder.manualBinaryFinished
    w,                     \* the bytes the io.Writer has accepted
    wcap,                  \* the writer's capacity in bytes (-1: unlimited)
    hist,                  \* the calls made on the Encoder, with their results
    \* ---- Document under construction by the caller, and the codec run on it
    doc,                   \* the Document the caller builds with the constructors
    phase,                 \* "build", "encoded", "decoded"
    wire,                  \* the encoding [format, bytes, err] handed to the decoder
    dopts,                 \* DecodeOptions of the decode
    res,                   \* the decode result [err, info, doc]
    \* ---- Decoder and its event iterator
    decoded,               \* Decoder.decoded (optional Document)
    decodeErr,             \* Decoder.decodeErr
    events,                \* Decoder.events (optional eventIterator)
    emitted,               \* the results NextEvent has returned so far
    reads,                 \* how many times the input stream was consumed
    \* ---- Nodes as the caller's pointers see them
    heap,                  \* [nodes: the allocated Nodes, doc: optional root list]
    gomap,                 \* the Map the caller fills for FromMap
    \* ---- Binary decoders running concurrently
    binaryStringBufferPool, \* the scratch buffers that lie in the sync.Pool
    scratch,               \* the backing array of every scratch buffer allocated so far
    readers                \* per goroutine: its decoder inside readNullTerminatedString

encVars == <<opts, manualDepth, manualBinaryUsed, manualBinaryFinished, w, wcap, hist>>
docVars == <<doc, phase, wire, dopts, res>>
decVars == <<decoded, decodeErr, events, emitted, reads>>
heapVars == <<heap, gomap>>
poolVars == <<binaryStringBufferPool, scratch, readers>>
vars == <<encVars, docVars, decVars, heapVars, poolVars>>

---------------------------------------------------------------------------
(* Bounds of the model *)

MaxCalls == 4       \* calls made on one Encoder
MaxNodes == 3       \* nodes of a Document the caller builds
MaxNextCalls == 2   \* NextEvent calls made after the iterator is exhausted

---------------------------------------------------------------------------
(* Bytes and small helpers *)

chTab == 9
chLF == 10
chVT == 11
chFF == 12
chCR == 13
chSpace == 32
chQuote == 34
chSlash == 47
chBackslash == 92
chLowerN == 110
chLowerR == 114
chLowerT == 116
chLBrace == 123
chRBrace == 125

Repeat(s, n) == [i \in 1..(n * Len(s)) |-> s[((i - 1) % Len(s)) + 1]]

Contains(s, b) == \E i \in 1..Len(s) : s[i] = b

Last(s) == s[Len(s)]

Front(s) == SubSeq(s, 1, Len(s) - 1)

\* Byte-wise lexicographic order of Go strings (a.Key < b.Key).
RECURSIVE StrLess(_, _)
StrLess(a, b) ==
    IF b = <<>> THEN FALSE
    ELSE IF a = <<>> THEN TRUE
    ELSE IF Head(a) # Head(b) THEN Head(a) < Head(b)
    ELSE StrLess(Tail(a), Tail(b))

---------------------------------------------------------------------------
(* Formats, node kinds, nodes *)

FormatAuto == 0
FormatText == 1
FormatBinary == 2

NodeObject == 1
NodeString == 2
NodeUint32 == 3

NilNode == [Kind |-> 0, Key |-> <<>>, StringValue |-> <<>>, Uint32Value |-> <<>>, Children |-> <<>>]

NewObjectNode(key) ==
    [Kind |-> NodeObject, Key |-> key, StringValue |-> <<>>, Uint32Value |-> <<>>, Children |-> <<>>]

NewStringNode(key, value) ==
    [Kind |-> NodeString, Key |-> key, StringValue |-> <<value>>, Uint32Value |-> <<>>, Children |-> <<>>]

NewUint32Node(key, value) ==
    [Kind |-> NodeUint32, Key |-> key, StringValue |-> <<>>, Uint32Value |-> <<value>>, Children |-> <<>>]

\* Node.Add: no-op unless the receiver is an Object and the child is not nil.
NodeAdd(n, child) ==
    IF n = NilNode \/ n.Kind # NodeObject \/ child = NilNode THEN n
    ELSE [n EXCEPT !.Children = Append(@, child)]

NewDocumentWithFormat(format) == [Format |-> format, Roots |-> <<>>]

NewDocument == NewDocumentWithFormat(FormatAuto)

\* Document.AddRoot: no-op for a nil node.
AddRoot(d, node) ==
    IF node = NilNode THEN d ELSE [d EXCEPT !.Roots = Append(@, node)]

\* containsKey
containsKeyFirstOnly(nodes, key) ==
    nodes # <<>> /\ nodes[1] # NilNode /\ nodes[1].Key = key

containsKey(nodes, key) ==
    \E i \in 1..Len(nodes) : nodes[i] # NilNode /\ nodes[i].Key = key

---------------------------------------------------------------------------
(* orderedNodes: source order, or a stable sort by key (nil nodes last) *)

nodeCmpLess(a, b) ==
    IF a = NilNode THEN FALSE
    ELSE IF b = NilNode THEN TRUE
    ELSE StrLess(a.Key, b.Key)

RECURSIVE stableInsertBeforeEqual(_, _)
stableInsertBeforeEqual(sorted, x) ==
    IF sorted = <<>> THEN <<x>>
    ELSE IF ~ nodeCmpLess(Head(sorted), x) THEN <<x>> \o sorted
    ELSE <<Head(sorted)>> \o stableInsertBeforeEqual(Tail(sorted), x)

\* Insert x after every element that is not greater than x (stable).
RECURSIVE stableInsert(_, _)
stableInsert(sorted, x) ==
    IF sorted = <<>> THEN <<x>>
    ELSE IF nodeCmpLess(x, Head(sorted)) THEN <<x>> \o sorted
    ELSE <<Head(sorted)>> \o stableInsert(Tail(sorted), x)

RECURSIVE sortStable(_)
sortStable(in) ==
    IF in = <<>> THEN <<>> ELSE stableInsert(sortStable(Front(in)), Last(in))

orderedNodes(in, deterministic) == IF deterministic THEN sortStable(in) ELSE in

---------------------------------------------------------------------------
(* Write plans: the writes a call issues, in order, and the error it ends  *)
(* with when no write fails.                                               *)

PlanOk(chunks) == [chunks |-> chunks, err |-> "nil"]
PlanErr(e) == [chunks |-> <<>>, err |-> e]

Then(p, q) ==
    IF p.err # "nil" THEN p ELSE [chunks |-> p.chunks \o q.chunks, err |-> q.err]

\* The writer accepts a chunk whole or fails on it; a failed write ends the call.
RECURSIVE applyChunks(_, _, _)
applyChunks(chunks, out, cap) ==
    IF chunks = <<>> THEN [out |-> out, err |-> "nil"]
    ELSE IF cap >= 0 /\ Len(out) + Len(Head(chunks)) > cap
         THEN [out |-> out, err |-> "ErrWrite"]
    ELSE applyChunks(Tail(chunks), out \o Head(chunks), cap)

Run(plan, out, cap) ==
    LET r == applyChunks(plan.chunks, out, cap)
    IN  IF r.err # "nil" THEN r ELSE [out |-> r.out, err |-> plan.err]

---------------------------------------------------------------------------
(* Binary encoder *)

binaryTypeMapStart == 0
binaryTypeString == 1
binaryTypeNumber == 2
binaryTypeMapEnd == 8

writeBinaryByte(b) == PlanOk(<< <<b>> >>)

\* A variant that writes the string without looking for a NUL.
writeNullTerminatedStringUnchecked(value) == PlanOk(<< value, <<0>> >>)

writeNullTerminatedString(value) ==
    IF Contains(value, 0) THEN PlanErr("ErrNullInString")
    ELSE PlanOk(<< value, <<0>> >>)

\* A variant that writes the four bytes most significant first.
putUint32BigEndian(v) == << v[1] \div 256, v[1] % 256, v[2] \div 256, v[2] % 256 >>

\* binary.LittleEndian.PutUint32 on <<hi, lo>>
putUint32(v) == << v[2] % 256, v[2] \div 256, v[1] % 256, v[1] \div 256 >>

RECURSIVE encodeBinaryNode(_, _), encodeBinaryNodes(_, _)
encodeBinaryNode(node, o) ==
    IF node.Kind = NodeObject THEN
        Then(writeBinaryByte(binaryTypeMapStart),
        Then(writeNullTerminatedString(node.Key),
        Then(encodeBinaryNodes(orderedNodes(node.Children, o.Deterministic), o),
             writeBinaryByte(binaryTypeMapEnd))))
    ELSE IF node.Kind = NodeString THEN
        Then(writeBinaryByte(binaryTypeString),
        Then(writeNullTerminatedString(node.Key),
             IF node.StringValue = <<>> THEN PlanErr("ErrInvalidNodeState")
             ELSE writeNullTerminatedString(node.StringValue[1])))
    ELSE IF node.Kind = NodeUint32 THEN
        Then(writeBinaryByte(binaryTypeNumber),
        Then(writeNullTerminatedString(node.Key),
             IF node.Uint32Value = <<>> THEN PlanErr("ErrInvalidNodeState")
             ELSE PlanOk(<< putUint32(node.Uint32Value[1]) >>)))
    ELSE PlanErr("ErrInvalidNodeState")

encodeBinaryNodes(nodes, o) ==
    IF nodes = <<>> THEN PlanOk(<<>>)
    ELSE Then(encodeBinaryNode(Head(nodes), o), encodeBinaryNodes(Tail(nodes), o))

encodeBinaryDocument(d, o) ==
    Then(encodeBinaryNodes(orderedNodes(d.Roots, o.Deterministic), o),
         writeBinaryByte(binaryTypeMapEnd))

---------------------------------------------------------------------------
(* Text encoder *)

\* Go's rune decoding at position pos, over the model's alphabet: an ASCII
\* byte is its own rune; EF BF BD is the rune U+FFFD; any other byte is
\* invalid UTF-8 and decodes to U+FFFD with size 1.  bytes is what WriteRune
\* writes for the rune.
runeError == 65533

runeAt(in, pos) ==
    IF in[pos] < 128 THEN [r |-> in[pos], size |-> 1, bytes |-> <<in[pos]>>]
    ELSE IF in[pos] = 239 /\ pos + 2 <= Len(in) /\ in[pos + 1] = 191 /\ in[pos + 2] = 189
         THEN [r |-> runeError, size |-> 3, bytes |-> <<239, 191, 189>>]
    ELSE [r |-> runeError, size |-> 1, bytes |-> <<239, 191, 189>>]

escapeRuneKeepsQuote(rn) ==
    IF rn.r = chBackslash THEN <<chBackslash, chBackslash>>
    ELSE IF rn.r = chLF THEN <<chBackslash, chLowerN>>
    ELSE IF rn.r = chTab THEN <<chBackslash, chLowerT>>
    ELSE IF rn.r = chCR THEN <<chBackslash, chLowerR>>
    ELSE rn.bytes

escapeRune(rn) ==
    IF rn.r = chBackslash THEN <<chBackslash, chBackslash>>
    ELSE IF rn.r = chQuote THEN <<chBackslash, chQuote>>
    ELSE IF rn.r = chLF THEN <<chBackslash, chLowerN>>
    ELSE IF rn.r = chTab THEN <<chBackslash, chLowerT>>
    ELSE IF rn.r = chCR THEN <<chBackslash, chLowerR>>
    ELSE rn.bytes

RECURSIVE escapeAll(_, _)
escapeAll(value, pos) ==
    IF pos > Len(value) THEN <<>>
    ELSE LET rn == runeAt(value, pos)
         IN  escapeRune(rn) \o escapeAll(value, pos + rn.size)

escapeString(value) ==
    IF ~ \E i \in 1..Len(value) : value[i] \in {chBackslash, chQuote, chLF, chTab, chCR}
    THEN value
    ELSE escapeAll(value, 1)

\* strconv.FormatUint(uint64(v), 10) on <<hi, lo>>
RECURSIVE fmtDigits(_)
fmtDigits(v) ==
    IF v = <<0, 0>> THEN <<>>
    ELSE LET t == (v[1] % 10) * 65536 + v[2]
         IN  fmtDigits(<<v[1] \div 10, t \div 10>>) \o <<48 + (t % 10)>>

formatUint(v) == IF v = <<0, 0>> THEN <<48>> ELSE fmtDigits(v)

\* textValueForNode: [value, err]
textValueForNode(node) ==
    IF node.Kind = NodeString THEN
        IF node.StringValue = <<>> THEN [value |-> <<>>, err |-> "ErrInvalidNodeState"]
        ELSE [value |-> node.StringValue[1], err |-> "nil"]
    ELSE IF node.Kind = NodeUint32 THEN
        IF node.Uint32Value = <<>> THEN [value |-> <<>>, err |-> "ErrInvalidNodeState"]
        ELSE [value |-> formatUint(node.Uint32Value[1]), err |-> "nil"]
    ELSE [value |-> <<>>, err |-> "ErrInvalidNodeState"]

\* The strings the Fprintf calls of the text encoder format.
textObjectHeader(indent, key, compact) ==
    IF compact THEN <<chQuote>> \o escapeString(key) \o <<chQuote, chSpace, chLBrace, chSpace>>
    ELSE indent \o <<chQuote>> \o escapeString(key) \o <<chQuote, chLF>> \o indent \o <<chLBrace, chLF>>

textObjectFooter(indent, compact) ==
    IF compact THEN <<chRBrace, chSpace>> ELSE indent \o <<chRBrace, chLF>>

textLeaf(indent, key, value, compact) ==
    IF compact
    THEN <<chQuote>> \o escapeString(key) \o <<chQuote, chSpace, chQuote>>
         \o escapeString(value) \o <<chQuote, chSpace>>
    ELSE indent \o <<chQuote>> \o escapeString(key) \o <<chQuote, chTab, chTab, chQuote>>
         \o escapeString(value) \o <<chQuote, chLF>>

RECURSIVE encodeTextNode(_, _, _), encodeTextNodes(_, _, _)
encodeTextNode(node, o, depth) ==
    LET indent == Repeat(o.Indent, depth) IN
    IF node.Kind = NodeObject THEN
        Then(PlanOk(<< textObjectHeader(indent, node.Key, o.Compact) >>),
        Then(encodeTextNodes(orderedNodes(node.Children, o.Deterministic), o, depth + 1),
             PlanOk(<< textObjectFooter(indent, o.Compact) >>)))
    ELSE IF node.Kind \in {NodeString, NodeUint32} THEN
        LET tv == textValueForNode(node) IN
        IF tv.err # "nil" THEN PlanErr(tv.err)
        ELSE PlanOk(<< textLeaf(indent, node.Key, tv.value, o.Compact) >>)
    ELSE PlanErr("ErrInvalidNodeState")

encodeTextNodes(nodes, o, depth) ==
    IF nodes = <<>> THEN PlanOk(<<>>)
    ELSE Then(encodeTextNode(Head(nodes), o, depth), encodeTextNodes(Tail(nodes), o, depth))

\* encodeTextDocument: in pretty mode a blank line separates the roots.
RECURSIVE encodeTextRoots(_, _)
encodeTextRoots(roots, o) ==
    IF roots = <<>> THEN PlanOk(<<>>)
    ELSE Then(encodeTextNode(Head(roots), o, 0),
         Then(IF ~o.Compact /\ Len(roots) > 1 THEN PlanOk(<< <<chLF>> >>) ELSE PlanOk(<<>>),
              encodeTextRoots(Tail(roots), o)))

encodeTextDocument(d, o) == encodeTextRoots(orderedNodes(d.Roots, o.Deterministic), o)

---------------------------------------------------------------------------
(* Document.Validate on a tree of values: every position of such a tree is *)
(* a distinct node, so the identity check of validateNode never fires.     *)

RECURSIVE validateNode(_)
validateNode(node) ==
    IF node = NilNode THEN "ErrInvalidNodeState"
    ELSE IF node.Kind = NodeObject THEN
        IF node.StringValue # <<>> \/ node.Uint32Value # <<>> THEN "ErrInvalidNodeState"
        ELSE IF \E i \in 1..Len(node.Children) : validateNode(node.Children[i]) # "nil"
             THEN "ErrInvalidNodeState" ELSE "nil"
    ELSE IF node.Kind = NodeString THEN
        IF node.StringValue = <<>> THEN "ErrInvalidNodeState"
        ELSE IF node.Uint32Value # <<>> \/ Len(node.Children) # 0 THEN "ErrInvalidNodeState"
        ELSE "nil"
    ELSE IF node.Kind = NodeUint32 THEN
        IF node.Uint32Value = <<>> THEN "ErrInvalidNodeState"
        ELSE IF node.StringValue # <<>> \/ Len(node.Children) # 0 THEN "ErrInvalidNodeState"
        ELSE "nil"
    ELSE "ErrInvalidNodeState"

Validate(d) ==
    IF \E i \in 1..Len(d.Roots) : validateNode(d.Roots[i]) # "nil"
    THEN "ErrInvalidNodeState" ELSE "nil"

---------------------------------------------------------------------------
(* Encoder *)

DefaultIndent == <<chTab>>

normalizeEncodeOptions(o) ==
    LET o1 == IF o.Indent = <<>> THEN [o EXCEPT !.Indent = DefaultIndent] ELSE o
    IN  IF o1.Format = FormatAuto THEN [o1 EXCEPT !.Format = FormatText] ELSE o1

EncodeOptions(format, compact, deterministic, validate) ==
    [Format |-> format, Compact |-> compact, Deterministic |-> deterministic,
     Validate |-> validate, Indent |-> <<>>]

manualFormat == IF opts.Format = FormatAuto THEN FormatText ELSE opts.Format

\* A variant that never runs the validation pass.
encodeDocumentPlanUnvalidated(d, o) ==
    LET format == IF o.Format = FormatAuto
                  THEN (IF d.Format \in {FormatBinary, FormatText} THEN d.Format ELSE FormatText)
                  ELSE o.Format
    IN  IF format = FormatText THEN encodeTextDocument(d, o)
        ELSE IF format = FormatBinary THEN encodeBinaryDocument(d, o)
        ELSE PlanErr("ErrInvalidFormat")

\* The plan of EncodeDocument for encoder options o.
encodeDocumentPlan(d, o) ==
    IF o.Validate /\ Validate(d) # "nil" THEN PlanErr(Validate(d))
    ELSE LET format == IF o.Format = FormatAuto
                       THEN (IF d.Format \in {FormatBinary, FormatText} THEN d.Format ELSE FormatText)
                       ELSE o.Format
         IN  IF format = FormatText THEN encodeTextDocument(d, o)
             ELSE IF format = FormatBinary THEN encodeBinaryDocument(d, o)
             ELSE PlanErr("ErrInvalidFormat")

Call(op, key, value, err, out0) ==
    [op |-> op, key |-> key, value |-> value, err |-> err,
     out |-> SubSeq(w', Len(out0) + 1, Len(w')), depth0 |-> manualDepth]

\* startTextObject: compact mode counts the object even when the write failed.
startTextObject(key) ==
    LET indent == Repeat(opts.Indent, manualDepth)
        r == Run(PlanOk(<< textObjectHeader(indent, key, opts.Compact) >>), w, wcap)
    IN  /\ w' = r.out
        /\ manualDepth' = IF opts.Compact \/ r.err = "nil" THEN manualDepth + 1 ELSE manualDepth
        /\ hist' = Append(hist, Call("StartObject", key, <<>>, r.err, w))

StartObject(key) ==
    /\ Len(hist) < MaxCalls
    /\ IF manualFormat = FormatText THEN
           /\ startTextObject(key)
           /\ UNCHANGED <<manualBinaryUsed>>
       ELSE IF manualFormat = FormatBinary THEN
           LET r == Run(Then(writeBinaryByte(binaryTypeMapStart), writeNullTerminatedString(key)),
                        w, wcap)
           IN  /\ manualBinaryUsed' = TRUE
               /\ manualDepth' = manualDepth + 1
               /\ w' = r.out
               /\ hist' = Append(hist, Call("StartObject", key, <<>>, r.err, w))
       ELSE
           /\ UNCHANGED <<w, manualDepth, manualBinaryUsed>>
           /\ hist' = Append(hist, Call("StartObject", key, <<>>, "ErrInvalidFormat", w))
    /\ UNCHANGED <<opts, manualBinaryFinished, wcap, docVars, decVars, heapVars, poolVars>>

\* writeTextLeaf and the binary leaf writers share this shape.
writeLeaf(op, key, value, textValue, binaryPlan) ==
    /\ Len(hist) < MaxCalls
    /\ IF manualFormat = FormatText THEN
           LET indent == Repeat(opts.Indent, manualDepth)
               r == Run(PlanOk(<< textLeaf(indent, key, textValue, opts.Compact) >>), w, wcap)
           IN  /\ w' = r.out
               /\ hist' = Append(hist, Call(op, key, value, r.err, w))
               /\ UNCHANGED <<manualBinaryUsed>>
       ELSE IF manualFormat = FormatBinary THEN
           LET r == Run(binaryPlan, w, wcap)
           IN  /\ manualBinaryUsed' = TRUE
               /\ w' = r.out
               /\ hist' = Append(hist, Call(op, key, value, r.err, w))
       ELSE
           /\ UNCHANGED <<w, manualBinaryUsed>>
           /\ hist' = Append(hist, Call(op, key, value, "ErrInvalidFormat", w))
    /\ UNCHANGED <<opts, manualDepth, manualBinaryFinished, wcap, docVars, decVars, heapVars, poolVars>>

WriteString(key, value) ==
    writeLeaf("WriteString", key, value, value,
              Then(writeBinaryByte(binaryTypeString),
              Then(writeNullTerminatedString(key), writeNullTerminatedString(value))))

WriteUint32(key, value) ==
    writeLeaf("WriteUint32", key, value, formatUint(value),
              Then(writeBinaryByte(binaryTypeNumber),
              Then(writeNullTerminatedString(key), PlanOk(<< putUint32(value) >>))))

\* A variant of the guard that lets an EndObject through at depth 0.
noOpenObjectOffByOne == manualDepth < 0

\* The guard of EndObject: no object is open.
noOpenObject == manualDepth <= 0

EndObject ==
    /\ Len(hist) < MaxCalls
    /\ IF manualFormat \in {FormatText, FormatBinary} THEN
           IF noOpenObject THEN
               /\ UNCHANGED <<w, manualDepth>>
               /\ hist' = Append(hist, Call("EndObject", <<>>, <<>>, "ErrInvalidNodeState", w))
           ELSE
               LET plan == IF manualFormat = FormatText
                           THEN PlanOk(<< textObjectFooter(Repeat(opts.Indent, manualDepth - 1),
                                                           opts.Compact) >>)
                           ELSE writeBinaryByte(binaryTypeMapEnd)
                   r == Run(plan, w, wcap)
               IN  /\ manualDepth' = manualDepth - 1
                   /\ w' = r.out
                   /\ hist' = Append(hist, Call("EndObject", <<>>, <<>>, r.err, w))
       ELSE
           /\ UNCHANGED <<w, manualDepth>>
           /\ hist' = Append(hist, Call("EndObject", <<>>, <<>>, "ErrInvalidFormat", w))
    /\ UNCHANGED <<opts, manualBinaryUsed, manualBinaryFinished, wcap, docVars, decVars, heapVars, poolVars>>

\* A variant of the guard that forgets an earlier finalization.
closeIgnoresFinished == manualFormat # FormatBinary \/ ~manualBinaryUsed

\* The first guard of Close: nothing to finalize.
closeIsNoop == manualFormat # FormatBinary \/ ~manualBinaryUsed \/ manualBinaryFinished

Close ==
    /\ Len(hist) < MaxCalls
    /\ IF closeIsNoop THEN
           /\ UNCHANGED <<w, manualBinaryFinished>>
           /\ hist' = Append(hist, Call("Close", <<>>, <<>>, "nil", w))
       ELSE IF manualDepth # 0 THEN
           /\ UNCHANGED <<w, manualBinaryFinished>>
           /\ hist' = Append(hist, Call("Close", <<>>, <<>>, "ErrInvalidNodeState", w))
       ELSE
           LET r == Run(writeBinaryByte(binaryTypeMapEnd), w, wcap)
           IN  /\ manualBinaryFinished' = TRUE
               /\ w' = r.out
               /\ hist' = Append(hist, Call("Close", <<>>, <<>>, r.err, w))
    /\ UNCHANGED <<opts, manualDepth, manualBinaryUsed, wcap, docVars, decVars, heapVars, poolVars>>

\* EncodeDocument writes the document and leaves the manual state alone.
EncodeDocument(d) ==
    /\ Len(hist) < MaxCalls
    /\ LET r == Run(encodeDocumentPlan(d, opts), w, wcap)
       IN  /\ w' = r.out
           /\ hist' = Append(hist, Call("EncodeDocument", <<>>, <<>>, r.err, w))
    /\ UNCHANGED <<opts, manualDepth, manualBinaryUsed, manualBinaryFinished, wcap, docVars, decVars, heapVars, poolVars>>

---------------------------------------------------------------------------
(* Binary decoder.  A decoding step returns [err, info, node, pos, cnt]:   *)
(* the error ("nil" for none), the data the error carries, the node read,  *)
(* the position of the next unread byte and the node count so far.         *)

DecodeOptions(format, strict, maxDepth, maxNodes) ==
    [Format |-> format, Strict |-> strict, MaxDepth |-> maxDepth, MaxNodes |-> maxNodes]

Fail(e, info, pos, cnt) == [err |-> e, info |-> info, node |-> NilNode, pos |-> pos, cnt |-> cnt]
Got(node, pos, cnt) == [err |-> "nil", info |-> <<>>, node |-> node, pos |-> pos, cnt |-> cnt]

\* checkDepth (the text parser and the binary decoder share its text)
depthExceededOffByOne(o, depth) == o.MaxDepth > 0 /\ depth >= o.MaxDepth

depthExceeded(o, depth) == o.MaxDepth > 0 /\ depth > o.MaxDepth

\* incrementNodeCount: the count after the increment exceeds the limit
nodesExceededOffByOne(o, cnt) == o.MaxNodes > 0 /\ cnt >= o.MaxNodes

nodesExceeded(o, cnt) == o.MaxNodes > 0 /\ cnt > o.MaxNodes

\* The byte loop of readNullTerminatedString for at most fuel bytes:
\* [err, value, pos, done]
RECURSIVE readStringBytes(_, _, _, _)
readStringBytes(in, pos, acc, fuel) ==
    IF pos > Len(in)
    THEN [err |-> "ErrBufferOverflow", value |-> <<>>, pos |-> pos, done |-> TRUE]
    ELSE IF in[pos] = 0 THEN [err |-> "nil", value |-> acc, pos |-> pos + 1, done |-> TRUE]
    ELSE IF fuel = 0 THEN [err |-> "nil", value |-> acc, pos |-> pos, done |-> FALSE]
    ELSE readStringBytes(in, pos + 1, Append(acc, in[pos]), fuel - 1)

\* readNullTerminatedString: [err, value, pos]
RECURSIVE readNullTerminatedString(_, _, _)
stringResume(in, r) ==
    IF r.done THEN [err |-> r.err, value |-> r.value, pos |-> r.pos]
    ELSE readNullTerminatedString(in, r.pos, r.value)

readNullTerminatedString(in, pos, acc) == stringResume(in, readStringBytes(in, pos, acc, 8))

\* readUint32: io.ReadFull of 4 bytes, little-endian, as <<hi, lo>>
readUint32RawEOF(in, pos) ==
    IF pos + 3 > Len(in) THEN [err |-> "io.ErrUnexpectedEOF", value |-> <<0, 0>>, pos |-> Len(in) + 1]
    ELSE [err |-> "nil",
          value |-> << in[pos + 2] + 256 * in[pos + 3], in[pos] + 256 * in[pos + 1] >>,
          pos |-> pos + 4]

readUint32BigEndian(in, pos) ==
    IF pos + 3 > Len(in) THEN [err |-> "ErrBufferOverflow", value |-> <<0, 0>>, pos |-> Len(in) + 1]
    ELSE [err |-> "nil",
          value |-> << in[pos + 1] + 256 * in[pos], in[pos + 3] + 256 * in[pos + 2] >>,
          pos |-> pos + 4]

readUint32(in, pos) ==
    IF pos + 3 > Len(in) THEN [err |-> "ErrBufferOverflow", value |-> <<0, 0>>, pos |-> Len(in) + 1]
    ELSE [err |-> "nil",
          value |-> << in[pos + 2] + 256 * in[pos + 3], in[pos] + 256 * in[pos + 1] >>,
          pos |-> pos + 4]

RECURSIVE decodeEntry(_, _, _, _, _, _), decodeObjectBody(_, _, _, _, _, _)
decodeEntry(in, pos, typeByte, depth, o, cnt) ==
    IF depthExceeded(o, depth) THEN Fail("ErrDepthLimitExceeded", <<depth, o.MaxDepth>>, pos, cnt)
    ELSE
    LET k == readNullTerminatedString(in, pos, <<>>) IN
    IF k.err # "nil" THEN Fail(k.err, <<>>, k.pos, cnt)
    ELSE IF typeByte = binaryTypeMapStart THEN
        IF nodesExceeded(o, cnt + 1)
        THEN Fail("ErrNodeLimitExceeded", <<cnt + 1, o.MaxNodes>>, k.pos, cnt + 1)
        ELSE decodeObjectBody(in, k.pos, NewObjectNode(k.value), depth, o, cnt + 1)
    ELSE IF typeByte = binaryTypeString THEN
        LET v == readNullTerminatedString(in, k.pos, <<>>) IN
        IF v.err # "nil" THEN Fail(v.err, <<>>, v.pos, cnt)
        ELSE IF nodesExceeded(o, cnt + 1)
             THEN Fail("ErrNodeLimitExceeded", <<cnt + 1, o.MaxNodes>>, v.pos, cnt + 1)
        ELSE Got(NewStringNode(k.value, v.value), v.pos, cnt + 1)
    ELSE IF typeByte = binaryTypeNumber THEN
        LET v == readUint32(in, k.pos) IN
        IF v.err # "nil" THEN Fail(v.err, <<>>, v.pos, cnt)
        ELSE IF nodesExceeded(o, cnt + 1)
             THEN Fail("ErrNodeLimitExceeded", <<cnt + 1, o.MaxNodes>>, v.pos, cnt + 1)
        ELSE Got(NewUint32Node(k.value, v.value), v.pos, cnt + 1)
    ELSE Fail("ErrUnrecognizedType", <<typeByte>>, k.pos, cnt)

\* The loop of decodeEntry over the entries of one object.
decodeObjectBody(in, pos, node, depth, o, cnt) ==
    IF pos > Len(in) THEN Fail("ErrBufferOverflow", <<>>, pos, cnt)
    ELSE IF in[pos] = binaryTypeMapEnd THEN Got(node, pos + 1, cnt)
    ELSE LET c == decodeEntry(in, pos + 1, in[pos], depth + 1, o, cnt) IN
         IF c.err # "nil" THEN c
         ELSE IF o.Strict /\ containsKey(node.Children, c.node.Key)
              THEN Fail("ErrDuplicateKeyInStrictMode", <<>>, c.pos, c.cnt)
         ELSE decodeObjectBody(in, c.pos, NodeAdd(node, c.node), depth, o, c.cnt)

\* A decode returns [err, info, doc]: doc is <<d>> on success and <<>> (nil) on failure.
DocOk(d) == [err |-> "nil", info |-> <<>>, doc |-> <<d>>]
DocFail(e, info) == [err |-> e, info |-> info, doc |-> <<>>]

RECURSIVE decodeDocument(_, _, _, _, _)
decodeDocument(in, pos, d, o, cnt) ==
    IF pos > Len(in) THEN
        IF Len(d.Roots) = 0 THEN DocOk(d)
        ELSE DocFail("ErrBufferOverflow", <<>>)
    ELSE IF in[pos] = binaryTypeMapEnd THEN DocOk(d)
    ELSE LET n == decodeEntry(in, pos + 1, in[pos], 1, o, cnt) IN
         IF n.err # "nil" THEN DocFail(n.err, n.info)
         ELSE IF o.Strict /\ containsKey(d.Roots, n.node.Key)
              THEN DocFail("ErrDuplicateKeyInStrictMode", <<>>)
         ELSE decodeDocument(in, n.pos, AddRoot(d, n.node), o, n.cnt)

parseBinaryDocument(in, o) == decodeDocument(in, 1, NewDocumentWithFormat(FormatBinary), o, 0)

---------------------------------------------------------------------------
(* Text lexer.  The lexer state st is [pos, line, col]: the position of    *)
(* the next unread rune, the current line (from 1) and column (from 0).    *)
(* Peeking a rune does not move the position.                              *)

textTokenEOF == 1
textTokenString == 2
textTokenLBrace == 3
textTokenRBrace == 4

newTextLexer == [pos |-> 1, line |-> 1, col |-> 0]

\* readRune's effect on the state: advancePosition
advancePosition(st, rn) ==
    IF rn.r = chLF THEN [pos |-> st.pos + rn.size, line |-> st.line + 1, col |-> 0]
    ELSE [pos |-> st.pos + rn.size, line |-> st.line, col |-> st.col + 1]

atEOF(in, st) == st.pos > Len(in)

isWhitespace(r) == r \in {chSpace, chTab, chLF, chCR, chVT, chFF}

RECURSIVE skipWhitespace(_, _)
skipWhitespace(in, st) ==
    IF atEOF(in, st) THEN st
    ELSE LET rn == runeAt(in, st.pos)
         IN  IF isWhitespace(rn.r) THEN skipWhitespace(in, advancePosition(st, rn)) ELSE st

RECURSIVE skipLineComment(_, _)
skipLineComment(in, st) ==
    IF atEOF(in, st) THEN st
    ELSE LET rn == runeAt(in, st.pos)
         IN  IF rn.r = chLF THEN advancePosition(st, rn)
             ELSE skipLineComment(in, advancePosition(st, rn))

\* What an escape sequence \x decodes to.
unescape(rn) ==
    IF rn.r = chLowerN THEN <<chLF>>
    ELSE IF rn.r = chLowerT THEN <<chTab>>
    ELSE IF rn.r = chLowerR THEN <<chCR>>
    ELSE IF rn.r = chBackslash THEN <<chBackslash>>
    ELSE IF rn.r = chQuote THEN <<chQuote>>
    ELSE <<chBackslash>> \o rn.bytes

\* The loop of readQuotedString, after the opening quote, for at most fuel
\* runes: [err, value, st, done]; done is FALSE when the loop goes on.
RECURSIVE readQuotedRunes(_, _, _, _)
readQuotedRunes(in, st, acc, fuel) ==
    IF atEOF(in, st)
    THEN [err |-> "ErrUnexpectedEOFInQuotedString", value |-> <<>>, st |-> st, done |-> TRUE]
    ELSE IF fuel = 0 THEN [err |-> "nil", value |-> acc, st |-> st, done |-> FALSE]
    ELSE LET rn == runeAt(in, st.pos)
             st1 == advancePosition(st, rn)
         IN  IF rn.r = chQuote THEN [err |-> "nil", value |-> acc, st |-> st1, done |-> TRUE]
             ELSE IF rn.r = chBackslash THEN
                 IF atEOF(in, st1)
                 THEN [err |-> "ErrUnexpectedEOFInEscapeSequence", value |-> <<>>, st |-> st1,
                       done |-> TRUE]
                 ELSE LET nx == runeAt(in, st1.pos)
                      IN  readQuotedRunes(in, advancePosition(st1, nx), acc \o unescape(nx),
                                          fuel - 1)
             ELSE readQuotedRunes(in, st1, acc \o rn.bytes, fuel - 1)

\* The body of readQuotedString, after the opening quote: [err, value, st]
RECURSIVE readQuotedBody(_, _, _)
quotedResume(in, q) ==
    IF q.done THEN [err |-> q.err, value |-> q.value, st |-> q.st]
    ELSE readQuotedBody(in, q.st, q.value)

readQuotedBody(in, st, acc) == quotedResume(in, readQuotedRunes(in, st, acc, 8))

readQuotedString(in, st) ==
    readQuotedBody(in, advancePosition(st, runeAt(in, st.pos)), <<>>)

\* The loop of readUnquotedString for at most fuel runes: [value, st, done]
RECURSIVE readUnquotedRunes(_, _, _, _)
readUnquotedRunes(in, st, acc, fuel) ==
    IF atEOF(in, st) THEN [value |-> acc, st |-> st, done |-> TRUE]
    ELSE IF isWhitespace(runeAt(in, st.pos).r)
            \/ runeAt(in, st.pos).r \in {chLBrace, chRBrace, chQuote}
         THEN [value |-> acc, st |-> st, done |-> TRUE]
    ELSE IF fuel = 0 THEN [value |-> acc, st |-> st, done |-> FALSE]
    ELSE readUnquotedRunes(in, advancePosition(st, runeAt(in, st.pos)),
                           acc \o runeAt(in, st.pos).bytes, fuel - 1)

\* readUnquotedString: [value, st]
RECURSIVE readUnquotedString(_, _, _)
unquotedResume(in, u) ==
    IF u.done THEN [value |-> u.value, st |-> u.st]
    ELSE readUnquotedString(in, u.st, u.value)

readUnquotedString(in, st, acc) == unquotedResume(in, readUnquotedRunes(in, st, acc, 8))

Token(kind, value, st) == [kind |-> kind, value |-> value, line |-> st.line, col |-> st.col]

LexFail(e, info, st) ==
    [err |-> e, info |-> info, tok |-> Token(textTokenEOF, <<>>, st), st |-> st]
LexGot(tok, st) == [err |-> "nil", info |-> <<>>, tok |-> tok, st |-> st]

\* textLexer.nextToken: [err, info, tok, st].  The steps take the values
\* the code holds in locals (the lexer state after the whitespace, the rune
\* read, the string read) as arguments.
lexQuoted(st, q) ==
    IF q.err # "nil" THEN LexFail(q.err, <<>>, q.st)
    ELSE LexGot(Token(textTokenString, q.value, st), q.st)

lexUnquoted(st, u) ==
    IF u.value = <<>> THEN LexFail("ErrUnexpectedCharacter", <<st.line, st.col>>, u.st)
    ELSE LexGot(Token(textTokenString, u.value, st), u.st)

lexSlashString(st, u) ==
    LexGot(Token(textTokenString, <<chSlash>> \o u.value, st), u.st)

RECURSIVE lexNextToken(_, _)
lexFromRune(in, st, rn, st1) ==
    IF rn.r = chSlash THEN
        IF ~atEOF(in, st1) /\ runeAt(in, st1.pos).r = chSlash
        THEN lexNextToken(in, skipLineComment(in, st1))
        ELSE lexSlashString(st, readUnquotedString(in, st1, <<>>))
    ELSE IF rn.r = chLBrace THEN LexGot(Token(textTokenLBrace, <<chLBrace>>, st), st1)
    ELSE IF rn.r = chRBrace THEN LexGot(Token(textTokenRBrace, <<chRBrace>>, st), st1)
    ELSE IF rn.r = chQuote THEN lexQuoted(st, readQuotedString(in, st))
    ELSE lexUnquoted(st, readUnquotedString(in, st, <<>>))

lexAfterWhitespace(in, st) ==
    IF atEOF(in, st) THEN LexGot(Token(textTokenEOF, <<>>, st), st)
    ELSE lexFromRune(in, st, runeAt(in, st.pos), advancePosition(st, runeAt(in, st.pos)))

lexNextToken(in, st0) == lexAfterWhitespace(in, skipWhitespace(in, st0))

---------------------------------------------------------------------------
(* Text parser.  The parser peeks one token: peekToken and nextToken lex   *)
(* the same token from the same lexer state, so a step that peeks lexes    *)
(* from st and keeps st, and a step that consumes moves to the state after *)
(* the token.  A step returns [err, info, node, st, cnt].                  *)

TFail(e, info, st, cnt) == [err |-> e, info |-> info, node |-> NilNode, st |-> st, cnt |-> cnt]
TGot(node, st, cnt) == [err |-> "nil", info |-> <<>>, node |-> node, st |-> st, cnt |-> cnt]

RECURSIVE parseNode(_, _, _, _, _), parseObject(_, _, _, _, _, _)
\* parseNode once the key token and the token after it were read.
parseNodeValue(in, keyTok, nextTok, depth, o, cnt) ==
    IF nextTok.err # "nil" THEN TFail(nextTok.err, nextTok.info, nextTok.st, cnt)
    ELSE IF nextTok.tok.kind = textTokenString THEN
        IF nodesExceeded(o, cnt + 1)
        THEN TFail("ErrNodeLimitExceeded", <<cnt + 1, o.MaxNodes>>, nextTok.st, cnt + 1)
        ELSE TGot(NewStringNode(keyTok.tok.value, nextTok.tok.value), nextTok.st, cnt + 1)
    ELSE IF nextTok.tok.kind = textTokenLBrace THEN
        IF nodesExceeded(o, cnt + 1)
        THEN TFail("ErrNodeLimitExceeded", <<cnt + 1, o.MaxNodes>>, nextTok.st, cnt + 1)
        ELSE parseObject(in, nextTok.st, NewObjectNode(keyTok.tok.value), depth, o, cnt + 1)
    ELSE TFail("ErrExpectedValueOrObject", <<nextTok.tok.line, nextTok.tok.col>>, keyTok.st, cnt)

\* parseNode once the key token was read.
parseNodeKey(in, keyTok, depth, o, cnt) ==
    IF keyTok.err # "nil" THEN TFail(keyTok.err, keyTok.info, keyTok.st, cnt)
    ELSE IF keyTok.tok.kind # textTokenString
         THEN TFail("ErrExpectedStringKey", <<keyTok.tok.line, keyTok.tok.col>>, keyTok.st, cnt)
    ELSE parseNodeValue(in, keyTok, lexNextToken(in, keyTok.st), depth, o, cnt)

parseNode(in, st, depth, o, cnt) ==
    IF depthExceeded(o, depth) THEN TFail("ErrDepthLimitExceeded", <<depth, o.MaxDepth>>, st, cnt)
    ELSE parseNodeKey(in, lexNextToken(in, st), depth, o, cnt)

\* parseObject once a child was parsed.
parseObjectChild(in, child, node, depth, o) ==
    IF child.err # "nil" THEN child
    ELSE IF o.Strict /\ containsKey(node.Children, child.node.Key)
         THEN TFail("ErrDuplicateKeyInStrictMode", <<>>, child.st, child.cnt)
    ELSE parseObject(in, child.st, NodeAdd(node, child.node), depth, o, child.cnt)

\* parseObject once the next token was peeked.
parseObjectPeeked(in, st, tok, node, depth, o, cnt) ==
    IF tok.err # "nil" THEN TFail(tok.err, tok.info, tok.st, cnt)
    ELSE IF tok.tok.kind = textTokenRBrace THEN TGot(node, tok.st, cnt)
    ELSE IF tok.tok.kind = textTokenEOF THEN TFail("ErrUnexpectedEOFInObject", <<>>, st, cnt)
    ELSE parseObjectChild(in, parseNode(in, st, depth + 1, o, cnt), node, depth, o)

\* The loop of parseObject, after the opening brace was consumed.
parseObject(in, st, node, depth, o, cnt) ==
    parseObjectPeeked(in, st, lexNextToken(in, st), node, depth, o, cnt)

\* The loop of parseTextDocument over the roots.
RECURSIVE parseTextRoots(_, _, _, _, _)
parseRootsNode(in, n, d, o) ==
    IF n.err # "nil" THEN DocFail(n.err, n.info)
    ELSE IF o.Strict /\ containsKey(d.Roots, n.node.Key)
         THEN DocFail("ErrDuplicateKeyInStrictMode", <<>>)
    ELSE parseTextRoots(in, n.st, AddRoot(d, n.node), o, n.cnt)

parseRootsPeeked(in, st, tok, d, o, cnt) ==
    IF tok.err # "nil" THEN DocFail(tok.err, tok.info)
    ELSE IF tok.tok.kind = textTokenEOF THEN DocOk(d)
    ELSE parseRootsNode(in, parseNode(in, st, 1, o, cnt), d, o)

parseTextRoots(in, st, d, o, cnt) ==
    parseRootsPeeked(in, st, lexNextToken(in, st), d, o, cnt)

parseTextDocument(in, o) ==
    parseTextRoots(in, newTextLexer, NewDocumentWithFormat(FormatText), o, 0)

---------------------------------------------------------------------------
(* Format detection and Decoder.DecodeDocument on a byte slice *)

peekWindow == 64
binaryLookAhead == 50

Min(a, b) == IF a < b THEN a ELSE b

looksBinaryPrefixWholePeek(data) ==
    /\ Len(data) # 0
    /\ data[1] \in {binaryTypeMapStart, binaryTypeString, binaryTypeNumber}
    /\ \E i \in 2..Len(data) : data[i] = 0

looksBinaryPrefix(data) ==
    /\ Len(data) # 0
    /\ data[1] \in {binaryTypeMapStart, binaryTypeString, binaryTypeNumber}
    /\ \E i \in 2..Min(binaryLookAhead, Len(data)) : data[i] = 0

detectStreamFormatAlwaysText(in) == FormatText

detectStreamFormat(in) ==
    LET prefix == SubSeq(in, 1, Min(peekWindow, Len(in)))
    IN  IF Len(prefix) = 0 THEN FormatText
        ELSE IF looksBinaryPrefix(prefix) THEN FormatBinary
        ELSE FormatText

validateDecodeFormat(format) ==
    IF format < FormatAuto \/ format > FormatBinary THEN "ErrInvalidFormat" ELSE "nil"

normalizeDecodeOptions(o) ==
    IF o.Format = 0 THEN [o EXCEPT !.Format = FormatAuto] ELSE o

\* A variant that tags the document with the format the caller asked for.
decodeStreamTagsRequested(in, o) ==
    IF validateDecodeFormat(o.Format) # "nil" THEN DocFail("ErrInvalidFormat", <<o.Format>>)
    ELSE LET format == IF o.Format = FormatAuto THEN detectStreamFormat(in) ELSE o.Format
             r == IF format = FormatText THEN parseTextDocument(in, o)
                  ELSE parseBinaryDocument(in, o)
         IN  IF r.err # "nil" THEN r
             ELSE DocOk([r.doc[1] EXCEPT !.Format = o.Format])

\* The first call of DecodeDocument on a Decoder with options o over the bytes in.
decodeStream(in, o) ==
    IF validateDecodeFormat(o.Format) # "nil" THEN DocFail("ErrInvalidFormat", <<o.Format>>)
    ELSE LET format == IF o.Format = FormatAuto THEN detectStreamFormat(in) ELSE o.Format
             r == IF format = FormatText THEN parseTextDocument(in, o)
                  ELSE parseBinaryDocument(in, o)
         IN  IF r.err # "nil" THEN r
             ELSE DocOk([r.doc[1] EXCEPT !.Format = format])

\* ParseBytes(in, o): NewDecoder(in, o).DecodeDocument()
decodeBytes(in, o) == decodeStream(in, normalizeDecodeOptions(o))

---------------------------------------------------------------------------
(* The caller builds a Document with the public constructors, encodes it   *)
(* (WriteString, AppendBinary) and decodes the bytes (ParseBytes).         *)

NoWire == [format |-> FormatAuto, bytes |-> <<>>, err |-> "nil"]

RECURSIVE countNodes(_)
countNodes(nodes) ==
    IF nodes = <<>> THEN 0
    ELSE 1 + countNodes(Head(nodes).Children) + countNodes(Tail(nodes))

\* The paths (index sequences) of the Object nodes of a forest.
RECURSIVE objectPaths(_)
objectPaths(nodes) ==
    UNION { IF nodes[i].Kind = NodeObject
            THEN { <<i>> } \cup { <<i>> \o p : p \in objectPaths(nodes[i].Children) }
            ELSE {} : i \in 1..Len(nodes) }

\* node.Add(child) on the node at path.
RECURSIVE addAt(_, _, _)
addAt(nodes, path, child) ==
    IF Len(path) = 1 THEN [nodes EXCEPT ![path[1]] = NodeAdd(@, child)]
    ELSE [nodes EXCEPT ![path[1]].Children = addAt(@, Tail(path), child)]

uSample == <<65280, 1>>    \* 0xFF000001
kA == <<107>>                              \* k
kB == <<92, 110>>                          \* \n written as two characters
sEscapes == <<34, 92, 10, 9, 13, 92, 116>> \* " \ LF TAB CR \ t
sNotUTF8 == <<255>>                        \* one byte that is not valid UTF-8
sEmpty == <<>>
BuildKeys == {kA, kB}

\* The nodes the constructors make.
BuildNodes ==
    { NewObjectNode(k) : k \in BuildKeys }
    \cup { NewStringNode(k, v) : k \in BuildKeys, v \in {sEscapes, sNotUTF8, sEmpty} }
    \cup { NewUint32Node(k, uSample) : k \in BuildKeys }

BuildAddRoot(n) ==
    /\ phase = "build"
    /\ countNodes(doc.Roots) < MaxNodes
    /\ doc' = AddRoot(doc, n)
    /\ UNCHANGED <<phase, wire, dopts, res, encVars, decVars, heapVars, poolVars>>

BuildAdd(path, n) ==
    /\ phase = "build"
    /\ countNodes(doc.Roots) < MaxNodes
    /\ doc' = [doc EXCEPT !.Roots = addAt(@, path, n)]
    /\ UNCHANGED <<phase, wire, dopts, res, encVars, decVars, heapVars, poolVars>>

\* AppendText(nil, d, o) and AppendBinary(nil, d, o): [bytes, err]; the slice
\* writer never fails, and a failed encoding returns no bytes.
appendEncoded(d, o) ==
    LET r == Run(encodeDocumentPlan(d, normalizeEncodeOptions(o)), <<>>, -1)
    IN  [bytes |-> IF r.err = "nil" THEN r.out ELSE <<>>, err |-> r.err]

AppendText(d, o) == appendEncoded(d, [o EXCEPT !.Format = FormatText])

AppendBinary(d, o) == appendEncoded(d, [o EXCEPT !.Format = FormatBinary])

DefaultEncode == EncodeOptions(FormatAuto, FALSE, FALSE, FALSE)

\* WriteString(doc)
WriteStringDoc ==
    /\ phase = "build"
    /\ LET r == AppendText(doc, EncodeOptions(FormatText, FALSE, FALSE, FALSE))
       IN  wire' = [format |-> FormatText, bytes |-> r.bytes, err |-> r.err]
    /\ phase' = "encoded"
    /\ UNCHANGED <<doc, dopts, res, encVars, decVars, heapVars, poolVars>>

\* AppendBinary(nil, doc, EncodeOptions{})
AppendBinaryDoc ==
    /\ phase = "build"
    /\ LET r == AppendBinary(doc, DefaultEncode)
       IN  wire' = [format |-> FormatBinary, bytes |-> r.bytes, err |-> r.err]
    /\ phase' = "encoded"
    /\ UNCHANGED <<doc, dopts, res, encVars, decVars, heapVars, poolVars>>

\* ParseBytes(wire, o) with the format the bytes were written in.
ParseBytes(o) ==
    /\ phase = "encoded"
    /\ wire.err = "nil"
    /\ dopts' = [o EXCEPT !.Format = wire.format]
    /\ res' = decodeBytes(wire.bytes, dopts')
    /\ phase' = "decoded"
    /\ UNCHANGED <<doc, wire, encVars, decVars, heapVars, poolVars>>

\* The decode options tried: the defaults, strict mode, and each depth limit.
DecodeOptionSet ==
    { DecodeOptions(FormatAuto, strict, 0, 0) : strict \in BOOLEAN }
    \cup { DecodeOptions(FormatAuto, FALSE, maxDepth, 0) : maxDepth \in 1..3 }

NoError == [err |-> "nil", info |-> <<>>]

IdleDoc ==
    /\ doc = NewDocument /\ phase = "idle" /\ wire = NoWire
    /\ dopts = DecodeOptions(FormatAuto, FALSE, 0, 0)
    /\ res = DocFail("nil", <<>>)

IdleDecoder ==
    /\ decoded = <<>> /\ decodeErr = NoError /\ events = <<>> /\ emitted = <<>> /\ reads = 0

\* No node allocated, and an empty Document.
EmptyHeap == [nodes |-> <<>>, doc |-> << <<>> >>]

IdleHeap == heap = EmptyHeap /\ gomap = <<>>

\* No decoder is running and the pool is empty.
IdlePool == binaryStringBufferPool = {} /\ scratch = <<>> /\ readers = <<>>

IdleEncoder ==
    /\ opts = normalizeEncodeOptions(EncodeOptions(FormatAuto, FALSE, FALSE, FALSE))
    /\ manualDepth = 0 /\ manualBinaryUsed = FALSE /\ manualBinaryFinished = FALSE
    /\ w = <<>> /\ wcap = -1 /\ hist = <<>>

InitCodec ==
    /\ doc = NewDocument /\ phase = "build" /\ wire = NoWire
    /\ dopts = DecodeOptions(FormatAuto, FALSE, 0, 0)
    /\ res = DocFail("nil", <<>>)
    /\ IdleEncoder
    /\ IdleDecoder
    /\ IdleHeap
    /\ IdlePool

NextCodec ==
    \/ \E n \in BuildNodes : BuildAddRoot(n)
    \/ \E n \in BuildNodes : \E path \in objectPaths(doc.Roots) : BuildAdd(path, n)
    \/ WriteStringDoc
    \/ AppendBinaryDoc
    \/ \E o \in DecodeOptionSet : ParseBytes(o)

SpecCodec == InitCodec /\ [][NextCodec]_vars

---------------------------------------------------------------------------
(* The event iterator and Decoder.NextEvent *)

EventDocumentStart == 1
EventDocumentEnd == 2
EventObjectStart == 3
EventObjectEnd == 4
EventString == 5
EventUint32 == 6

Event(type, key, depth, stringValue, uint32Value) ==
    [Type |-> type, Key |-> key, Depth |-> depth,
     StringValue |-> stringValue, Uint32Value |-> uint32Value]

EmptyEvent == Event(0, <<>>, 0, <<>>, <<>>)

eventFrame(node) == [node |-> node, childIndex |-> 0, started |-> FALSE]

newEventIterator ==
    [stack |-> <<>>, rootIndex |-> 0, started |-> FALSE, finished |-> FALSE]

Yield(it, event) == [it |-> it, event |-> event, ok |-> TRUE]

\* The index (0-based) of the first non-nil child at or after from, or the
\* number of children when there is none.
RECURSIVE nextChild(_, _)
nextChild(children, from) ==
    IF from >= Len(children) THEN Len(children)
    ELSE IF children[from + 1] = NilNode THEN nextChild(children, from + 1)
    ELSE from

markFinishedForgets(it) == it

markFinished(it) == [it EXCEPT !.finished = TRUE]

eventDepthZeroBased(stack) == Len(stack) - 1

eventDepth(stack) == Len(stack)

\* The loop of eventIterator.next over the roots of the iterator's document.
RECURSIVE iterLoop(_, _)
\* An started Object frame whose next non-nil child is at index at.
iterChild(it, roots, topIndex, frame, at, depth) ==
    IF at < Len(frame.node.Children)
    THEN iterLoop([it EXCEPT
             !.stack = Append([@ EXCEPT ![topIndex].childIndex = at + 1],
                              eventFrame(frame.node.Children[at + 1]))],
             roots)
    ELSE Yield([it EXCEPT !.stack = Front(@)],
               Event(EventObjectEnd, frame.node.Key, depth, <<>>, <<>>))

\* The switch on the kind of the node of the top frame.
iterFrame(it, roots, topIndex, frame, depth) ==
    IF frame.node.Kind = NodeObject
    THEN IF ~ frame.started
         THEN Yield([it EXCEPT !.stack[topIndex].started = TRUE],
                    Event(EventObjectStart, frame.node.Key, depth, <<>>, <<>>))
         ELSE iterChild(it, roots, topIndex, frame,
                        nextChild(frame.node.Children, frame.childIndex), depth)
    ELSE IF frame.node.Kind = NodeString
    THEN Yield([it EXCEPT !.stack = Front(@)],
               Event(EventString, frame.node.Key, depth, frame.node.StringValue, <<>>))
    ELSE IF frame.node.Kind = NodeUint32
    THEN Yield([it EXCEPT !.stack = Front(@)],
               Event(EventUint32, frame.node.Key, depth, <<>>, frame.node.Uint32Value))
    ELSE iterLoop([it EXCEPT !.stack = Front(@)], roots)

\* The next root, after rootIndex was advanced.
iterRoot(it, roots, root) ==
    IF root = NilNode THEN iterLoop(it, roots)
    ELSE iterLoop([it EXCEPT !.stack = Append(@, eventFrame(root))], roots)

iterLoop(it, roots) ==
    IF it.stack = <<>>
    THEN IF it.rootIndex >= Len(roots)
         THEN Yield(markFinished(it), Event(EventDocumentEnd, <<>>, 0, <<>>, <<>>))
         ELSE iterRoot([it EXCEPT !.rootIndex = @ + 1], roots, roots[it.rootIndex + 1])
    ELSE iterFrame(it, roots, Len(it.stack), it.stack[Len(it.stack)], eventDepth(it.stack))

\* eventIterator.next: [it, event, ok]
iterNext(it, roots) ==
    IF it.finished THEN [it |-> it, event |-> EmptyEvent, ok |-> FALSE]
    ELSE IF ~ it.started
    THEN Yield([it EXCEPT !.started = TRUE], Event(EventDocumentStart, <<>>, 0, <<>>, <<>>))
    ELSE iterLoop(it, roots)

\* A variant that keeps a decoded document only, and decodes again after an
\* error.
decodeDocumentOutcomeRetries ==
    IF decoded # <<>>
    THEN [decoded |-> decoded, decodeErr |-> decodeErr, reads |-> reads]
    ELSE LET r == decodeStream(wire.bytes, dopts)
         IN  [decoded |-> r.doc, decodeErr |-> [err |-> r.err, info |-> r.info],
              reads |-> reads + 1]

\* What DecodeDocument leaves in the Decoder and returns: the cached outcome
\* once there is one, otherwise the outcome of decoding the stream.
decodeDocumentOutcome ==
    IF decoded # <<>> \/ decodeErr.err # "nil"
    THEN [decoded |-> decoded, decodeErr |-> decodeErr, reads |-> reads]
    ELSE LET r == decodeStream(wire.bytes, dopts)
         IN  [decoded |-> r.doc, decodeErr |-> [err |-> r.err, info |-> r.info],
              reads |-> reads + 1]

\* NewDecoder(reader over the encoded bytes, o)
NewDecoder(o) ==
    /\ phase = "encoded"
    /\ wire.err = "nil"
    /\ dopts' = normalizeDecodeOptions(o)
    /\ phase' = "decoder"
    /\ UNCHANGED <<doc, wire, res, encVars, decVars, heapVars, poolVars>>

\* DecodeDocument keeps the outcome dd in the Decoder and returns it.
keepOutcome(dd) ==
    /\ decoded' = dd.decoded
    /\ decodeErr' = dd.decodeErr
    /\ reads' = dd.reads

DecodeDocument ==
    /\ phase = "decoder"
    /\ keepOutcome(decodeDocumentOutcome)
    /\ res' = [err |-> decodeErr'.err, info |-> decodeErr'.info, doc |-> decoded']
    /\ UNCHANGED <<doc, phase, wire, dopts, events, emitted, encVars, heapVars, poolVars>>

Returned(event, err) == [event |-> event, err |-> err]

\* The calls of NextEvent that returned no event.
emptyReturns == Cardinality({ i \in 1..Len(emitted) : emitted[i].err # "nil" })

\* NextEvent with the iterator step r: the event, or io.EOF once exhausted.
returnNext(r) ==
    /\ events' = <<r.it>>
    /\ emitted' = Append(emitted, IF r.ok THEN Returned(r.event, "nil")
                                  ELSE Returned(EmptyEvent, "io.EOF"))

NextEvent ==
    /\ phase = "decoder"
    /\ emptyReturns < MaxNextCalls
    /\ IF events = <<>>
       THEN /\ keepOutcome(decodeDocumentOutcome)
            /\ IF decodeErr'.err # "nil"
               THEN /\ events' = events
                    /\ emitted' = Append(emitted, Returned(EmptyEvent, decodeErr'.err))
               ELSE returnNext(iterNext(newEventIterator, decoded'[1].Roots))
       ELSE /\ returnNext(iterNext(events[1], decoded[1].Roots))
            /\ UNCHANGED <<decoded, decodeErr, reads>>
    /\ UNCHANGED <<doc, phase, wire, dopts, res, encVars, heapVars, poolVars>>

RECURSIVE hasNil(_)
hasNil(nodes) ==
    \E i \in 1..Len(nodes) : nodes[i] = NilNode \/ hasNil(nodes[i].Children)

insertAt(seq, i, x) == SubSeq(seq, 1, i - 1) \o <<x>> \o SubSeq(seq, i, Len(seq))

RECURSIVE insertNilAt(_, _, _)
insertNilAt(nodes, path, i) ==
    IF path = <<>> THEN insertAt(nodes, i, NilNode)
    ELSE [nodes EXCEPT ![path[1]].Children = insertNilAt(@, Tail(path), i)]

RECURSIVE nodesAt(_, _)
nodesAt(nodes, path) ==
    IF path = <<>> THEN nodes ELSE nodesAt(nodes[path[1]].Children, Tail(path))

\* The caller, holding the document DecodeDocument returned, puts a nil entry
\* into its root list or into an object's children before reading events.
CallerInsertsNil(path, i) ==
    /\ phase = "decoder"
    /\ decoded # <<>> /\ events = <<>>
    /\ ~ hasNil(decoded[1].Roots)
    /\ decoded' = <<[decoded[1] EXCEPT !.Roots = insertNilAt(@, path, i)]>>
    /\ UNCHANGED <<doc, phase, wire, dopts, res, decodeErr, events, emitted, reads, encVars, heapVars, poolVars>>

decodedRoots == IF decoded = <<>> THEN <<>> ELSE decoded[1].Roots

EventNodes ==
    { NewObjectNode(k) : k \in BuildKeys }
    \cup { NewStringNode(kA, sEscapes), NewUint32Node(kB, uSample) }

EventDecodeOptionSet ==
    { DecodeOptions(FormatAuto, strict, 0, 0) : strict \in BOOLEAN }

InitEvents == InitCodec

NextEvents ==
    \/ \E n \in EventNodes : BuildAddRoot(n)
    \/ \E n \in EventNodes : \E path \in objectPaths(doc.Roots) : BuildAdd(path, n)
    \/ WriteStringDoc
    \/ AppendBinaryDoc
    \/ \E o \in EventDecodeOptionSet : NewDecoder(o)
    \/ DecodeDocument
    \/ \E path \in {<<>>} \cup objectPaths(decodedRoots) :
         \E i \in 1..(Len(nodesAt(decodedRoots, path)) + 1) : CallerInsertsNil(path, i)
    \/ NextEvent

SpecEvents == InitEvents /\ [][NextEvents]_vars

---------------------------------------------------------------------------
(* The manual streaming encoder as a state machine *)

kPlain == <<107>>          \* "k"
kNul == <<97, 0>>          \* "a\x00": a key with an embedded NUL
vPlain == <<118>>          \* "v"

\* The options the Encoder is created with.
EncoderOptionSet ==
    { normalizeEncodeOptions(EncodeOptions(fc[1], fc[2], FALSE, FALSE)) :
        fc \in { <<FormatAuto, FALSE>>, <<FormatText, TRUE>>, <<FormatBinary, FALSE>>, <<3, FALSE>> } }

\* The documents handed to EncodeDocument.
EncoderDocs ==
    { NewDocument,
      AddRoot(NewDocumentWithFormat(FormatBinary), NewStringNode(kPlain, vPlain)) }

InitEncoder(caps) ==
    /\ opts \in EncoderOptionSet
    /\ manualDepth = 0
    /\ manualBinaryUsed = FALSE
    /\ manualBinaryFinished = FALSE
    /\ w = <<>>
    /\ wcap \in caps
    /\ hist = <<>>
    /\ IdleDoc
    /\ IdleDecoder
    /\ IdleHeap
    /\ IdlePool

NextEncoder ==
    \/ \E key \in {kPlain, kNul} : StartObject(key)
    \/ \E kv \in { <<kPlain, vPlain>>, <<kPlain, kNul>>, <<kNul, vPlain>> } : WriteString(kv[1], kv[2])
    \/ \E key \in {kPlain, kNul} : WriteUint32(key, uSample)
    \/ EndObject
    \/ Close
    \/ \E d \in EncoderDocs : EncodeDocument(d)

\* The Encoder over a writer that never fails.
SpecEnc == InitEncoder({-1}) /\ [][NextEncoder]_vars

---------------------------------------------------------------------------
(* Claims about the manual streaming encoder *)

ManualOps == {"StartObject", "WriteString", "WriteUint32", "EndObject"}
ManualWrites == {"StartObject", "WriteString", "WriteUint32"}

\* The encoder's depth after call i.
DepthAfter(i) == IF i < Len(hist) THEN hist[i + 1].depth0 ELSE manualDepth

\* C3: in text and binary mode an EndObject issued at open-object depth 0
\* returns ErrInvalidNodeState, emits no byte and leaves the depth at 0, and
\* the depth is never negative.
C3_EndObjectAtDepthZero ==
    manualFormat \in {FormatText, FormatBinary} =>
        /\ manualDepth >= 0
        /\ \A i \in 1..Len(hist) :
               hist[i].op = "EndObject" /\ hist[i].depth0 = 0 =>
                   /\ hist[i].err = "ErrInvalidNodeState"
                   /\ hist[i].out = <<>>
                   /\ DepthAfter(i) = 0

C3_Witness ==
    /\ manualFormat = FormatBinary
    /\ Len(hist) = 3
    /\ hist[1].op = "StartObject" /\ hist[2].op = "EndObject" /\ hist[2].err = "nil"
    /\ hist[3].op = "EndObject" /\ hist[3].err = "ErrInvalidNodeState"
    /\ manualDepth = 0

\* Objects opened by a successful StartObject and not yet closed by a
\* successful EndObject, among the first n calls.
RECURSIVE OpenObjects(_)
OpenObjects(n) ==
    IF n = 0 THEN 0
    ELSE OpenObjects(n - 1)
         + (IF hist[n].op = "StartObject" /\ hist[n].err = "nil" THEN 1 ELSE 0)
         - (IF hist[n].op = "EndObject" /\ hist[n].err = "nil" THEN 1 ELSE 0)

\* C4: in text and binary mode a Close called while an opened object is not
\* yet closed returns ErrInvalidNodeState.
C4_CloseWithOpenObjectsFails ==
    manualFormat \in {FormatText, FormatBinary} =>
        \A i \in 1..Len(hist) :
            hist[i].op = "Close" /\ OpenObjects(i - 1) > 0 => hist[i].err = "ErrInvalidNodeState"

\* The same in binary mode, for the first finalization.
C4_BinaryFirstCloseFails ==
    manualFormat = FormatBinary =>
        \A i \in 1..Len(hist) :
            /\ hist[i].op = "Close" /\ OpenObjects(i - 1) > 0
            /\ \A j \in 1..(i - 1) : hist[j].op # "Close" \/ hist[j].err # "nil"
            => hist[i].err = "ErrInvalidNodeState"

ManualWriteBefore(i) == \E j \in 1..(i - 1) : hist[j].op \in ManualWrites
TerminatorBefore(i) == \E j \in 1..(i - 1) : hist[j].op = "Close" /\ hist[j].out # <<>>

\* C5: in binary mode a Close emits the terminator 0x08 exactly when a manual
\* write was made before it, no earlier Close emitted it and the depth is 0;
\* a Close before any manual write and a Close after the emitting one emit
\* nothing and return nil; a Close at depth > 0 emits nothing and fails, and
\* does not prevent a later Close from emitting; at most one Close emits.
C5_TerminatorExactlyOnce ==
    manualFormat = FormatBinary =>
        /\ \A i \in 1..Len(hist) :
               hist[i].op = "Close" =>
                   IF ~ManualWriteBefore(i) \/ TerminatorBefore(i)
                   THEN hist[i].out = <<>> /\ hist[i].err = "nil"
                   ELSE IF hist[i].depth0 # 0
                   THEN hist[i].out = <<>> /\ hist[i].err = "ErrInvalidNodeState"
                   ELSE hist[i].out = <<binaryTypeMapEnd>> /\ hist[i].err = "nil"
        /\ Cardinality({ i \in 1..Len(hist) : hist[i].op = "Close" /\ hist[i].out # <<>> }) <= 1

\* A failed Close, the missing EndObject, a Close that emits, in that order.
C5_Witness ==
    /\ manualFormat = FormatBinary
    /\ Len(hist) = 4
    /\ hist[1].op = "StartObject" /\ hist[1].err = "nil"
    /\ hist[2].op = "Close" /\ hist[2].err = "ErrInvalidNodeState"
    /\ hist[3].op = "EndObject" /\ hist[3].err = "nil"
    /\ hist[4].op = "Close" /\ hist[4].err = "nil" /\ hist[4].out = <<binaryTypeMapEnd>>

\* The tree a sequence of successful manual calls describes: each
\* StartObject..EndObject is an Object holding the entries between them.
RECURSIVE describedForest(_, _)
describedForest(calls, stack) ==
    IF calls = <<>> THEN stack[1].Children
    ELSE LET c == Head(calls)
             top == Last(stack)
             rest == Front(stack)
         IN  IF c.op = "StartObject" THEN
                 describedForest(Tail(calls), Append(stack, NewObjectNode(c.key)))
             ELSE IF c.op = "WriteString" THEN
                 describedForest(Tail(calls),
                     Append(rest, NodeAdd(top, NewStringNode(c.key, c.value))))
             ELSE IF c.op = "WriteUint32" THEN
                 describedForest(Tail(calls),
                     Append(rest, NodeAdd(top, NewUint32Node(c.key, c.value))))
             ELSE IF c.op = "EndObject" THEN
                 describedForest(Tail(calls),
                     Append(Front(rest), NodeAdd(Last(rest), top)))
             ELSE describedForest(Tail(calls), stack)

DescribedDocument ==
    [Format |-> FormatBinary, Roots |-> describedForest(Front(hist), <<NewObjectNode(<<>>)>>)]

\* Successful manual calls, balanced, then one successful Close, in binary mode.
BalancedThenClose ==
    /\ manualFormat = FormatBinary
    /\ Len(hist) >= 2
    /\ Last(hist).op = "Close" /\ Last(hist).err = "nil"
    /\ \A i \in 1..(Len(hist) - 1) : hist[i].op \in ManualOps /\ hist[i].err = "nil"
    /\ OpenObjects(Len(hist) - 1) = 0

---------------------------------------------------------------------------
(* Round trips through the text and binary codecs (SpecCodec) *)

DefaultDecode(format) == DecodeOptions(format, FALSE, 0, 0)

TextRoundTripDone ==
    phase = "decoded" /\ wire.format = FormatText /\ dopts = DefaultDecode(FormatText)

BinaryRoundTripDone ==
    phase = "decoded" /\ wire.format = FormatBinary /\ dopts = DefaultDecode(FormatBinary)

RECURSIVE hasKind(_, _)
hasKind(nodes, kind) ==
    \E i \in 1..Len(nodes) :
        nodes[i].Kind = kind \/ hasKind(nodes[i].Children, kind)

\* Every key and string value of the forest is valid UTF-8.
RECURSIVE validUTF8(_, _)
validUTF8(in, pos) ==
    IF pos > Len(in) THEN TRUE
    ELSE LET d == runeAt(in, pos)
         IN  d.bytes = SubSeq(in, pos, pos + d.size - 1) /\ validUTF8(in, pos + d.size)

RECURSIVE allValidUTF8(_)
allValidUTF8(nodes) ==
    \A i \in 1..Len(nodes) :
        /\ validUTF8(nodes[i].Key, 1)
        /\ \A k \in 1..Len(nodes[i].StringValue) : validUTF8(nodes[i].StringValue[k], 1)
        /\ allValidUTF8(nodes[i].Children)

\* The value of a decimal numeral as <<high half, low half>>, or <<>> when
\* it does not fit in 32 bits or is not a canonical numeral.
RECURSIVE decimalValue(_, _)
decimalValue(digits, acc) ==
    IF digits = <<>> THEN acc
    ELSE LET d == Head(digits) - 48
             lo == acc[2] * 10 + d
             hi == acc[1] * 10 + (lo \div 65536)
         IN  IF d < 0 \/ d > 9 \/ hi > 65535 THEN <<>>
             ELSE decimalValue(Tail(digits), <<hi, lo % 65536>>)

isDecimalOf(text, v) ==
    /\ text # <<>>
    /\ (Len(text) > 1 => text[1] # 48)
    /\ decimalValue(text, <<0, 0>>) = v

\* got is want with every Uint32 leaf turned into the String leaf of its numeral.
RECURSIVE sameAsText(_, _)
sameAsText(got, want) ==
    /\ Len(got) = Len(want)
    /\ \A i \in 1..Len(want) :
        /\ got[i].Key = want[i].Key
        /\ IF want[i].Kind = NodeUint32
           THEN /\ got[i].Kind = NodeString
                /\ Len(got[i].StringValue) = 1
                /\ isDecimalOf(got[i].StringValue[1], want[i].Uint32Value[1])
                /\ got[i].Uint32Value = <<>>
                /\ got[i].Children = <<>>
           ELSE /\ got[i].Kind = want[i].Kind
                /\ got[i].StringValue = want[i].StringValue
                /\ got[i].Uint32Value = want[i].Uint32Value
                /\ sameAsText(got[i].Children, want[i].Children)

\* C1 as stated: a document encoded as text and decoded with the default
\* options comes back with the same root and child sequences, keys, kinds
\* and values, a Uint32 leaf as a Uint32 leaf.
C1_TextRoundTripIdentity ==
    TextRoundTripDone =>
        res.err = "nil" /\ res.doc[1].Roots = doc.Roots

\* C1 (amended): a tree-shaped document whose keys and string values are
\* valid UTF-8, encoded as text and decoded with the default options, comes
\* back with the same sequences, keys and string values, except that every
\* Uint32 leaf comes back as a String leaf holding its decimal numeral.
C1_TextRoundTrip ==
    (TextRoundTripDone /\ allValidUTF8(doc.Roots)) =>
        /\ res.err = "nil"
        /\ res.doc[1].Format = FormatText
        /\ sameAsText(res.doc[1].Roots, doc.Roots)

C1_Witness ==
    /\ TextRoundTripDone /\ allValidUTF8(doc.Roots)
    /\ countNodes(doc.Roots) = MaxNodes
    /\ hasKind(doc.Roots, NodeUint32)
    /\ \E i \in 1..Len(doc.Roots) :
        /\ doc.Roots[i].Kind = NodeObject /\ doc.Roots[i].Key = kB
        /\ \E j \in 1..Len(doc.Roots[i].Children) :
              doc.Roots[i].Children[j].StringValue = <<sEscapes>>
    /\ res.err = "nil"

\* C2: a document encoded as binary and decoded with the default options
\* comes back with the same root and child sequences, keys, kinds, string
\* values and 32-bit values.
C2_BinaryRoundTrip ==
    BinaryRoundTripDone =>
        /\ res.err = "nil"
        /\ res.doc[1].Format = FormatBinary
        /\ res.doc[1].Roots = doc.Roots

C2_Witness ==
    /\ BinaryRoundTripDone
    /\ countNodes(doc.Roots) = MaxNodes
    /\ hasKind(doc.Roots, NodeUint32) /\ hasKind(doc.Roots, NodeString)
    /\ \E i \in 1..Len(doc.Roots) :
        doc.Roots[i].Kind = NodeObject /\ doc.Roots[i].Children # <<>>
    /\ res.err = "nil"

---------------------------------------------------------------------------
(* Duplicate keys and the depth limit on decode (SpecCodec) *)

\* Only the keys and the nesting of a forest.
RECURSIVE keyShape(_)
keyShape(nodes) ==
    [i \in 1..Len(nodes) |-> <<nodes[i].Key, keyShape(nodes[i].Children)>>]

\* Some object scope, or the root list, holds two entries with the same key.
RECURSIVE hasDuplicateScope(_)
hasDuplicateScope(nodes) ==
    \/ \E i, j \in 1..Len(nodes) : i < j /\ nodes[i].Key = nodes[j].Key
    \/ \E i \in 1..Len(nodes) : hasDuplicateScope(nodes[i].Children)

\* The same key appears in two different scopes.
keyReusedAcrossScopes(nodes) ==
    \E i \in 1..Len(nodes) : \E j \in 1..Len(nodes[i].Children) :
        nodes[i].Children[j].Key = nodes[i].Key

NoLimits == dopts.MaxDepth = 0 /\ dopts.MaxNodes = 0

\* C9: in non-strict mode both decoders keep all entries that share a key
\* as distinct nodes in input order; in strict mode a well-formed input
\* fails with ErrDuplicateKeyInStrictMode exactly when some object scope or
\* the root list holds two entries with the same key, and a key used in two
\* different scopes is no duplicate.
C9_DuplicateKeys ==
    (phase = "decoded" /\ NoLimits) =>
        IF dopts.Strict /\ hasDuplicateScope(doc.Roots)
        THEN res.err = "ErrDuplicateKeyInStrictMode" /\ res.doc = <<>>
        ELSE res.err = "nil" /\ keyShape(res.doc[1].Roots) = keyShape(doc.Roots)

C9_ReusedKeyAccepted ==
    /\ phase = "decoded" /\ NoLimits /\ dopts.Strict
    /\ wire.format = FormatText
    /\ ~ hasDuplicateScope(doc.Roots)
    /\ keyReusedAcrossScopes(doc.Roots)
    /\ res.err = "nil"

C9_Witness ==
    /\ phase = "decoded" /\ NoLimits /\ dopts.Strict
    /\ wire.format = FormatBinary
    /\ Len(doc.Roots) = 3 /\ doc.Roots[1].Key # doc.Roots[2].Key
    /\ doc.Roots[2].Key = doc.Roots[3].Key
    /\ res.err = "ErrDuplicateKeyInStrictMode"

\* The nesting depth of a forest: roots at depth 1.
RECURSIVE treeDepth(_)
treeDepth(nodes) ==
    IF nodes = <<>> THEN 0
    ELSE LET here == 1 + treeDepth(Head(nodes).Children)
             rest == treeDepth(Tail(nodes))
         IN  IF here > rest THEN here ELSE rest

DepthLimitTried == phase = "decoded" /\ ~ dopts.Strict /\ dopts.MaxNodes = 0

\* The outcome of the other decoder on its encoding of the same tree.
otherDecoderErr ==
    IF wire.format = FormatText
    THEN decodeBytes(AppendBinary(doc, DefaultEncode).bytes,
                     [dopts EXCEPT !.Format = FormatBinary]).err
    ELSE decodeBytes(AppendText(doc, DefaultEncode).bytes,
                     [dopts EXCEPT !.Format = FormatText]).err

\* C10 as stated: a document nested to depth d fails with
\* ErrDepthLimitExceeded under MaxDepth = d-1, for every d >= 1.
C10_DepthLimitAtEveryDepth ==
    (DepthLimitTried /\ doc.Roots # <<>> /\ dopts.MaxDepth = treeDepth(doc.Roots) - 1) =>
        res.err = "ErrDepthLimitExceeded"

\* C10 (amended): a document nested to depth d >= 2 decoded with
\* MaxDepth = d-1 fails with ErrDepthLimitExceeded; decoded with any
\* MaxDepth >= d it succeeds; MaxDepth = 0 imposes no limit (so a document
\* of depth 1 decodes under MaxDepth = 0); the text and the binary decoder
\* give the same outcome for encodings of the same tree.
C10_DepthLimit ==
    DepthLimitTried =>
        LET d == treeDepth(doc.Roots)
            m == dopts.MaxDepth
        IN  /\ (d >= 2 /\ m = d - 1) => (res.err = "ErrDepthLimitExceeded" /\ res.doc = <<>>)
            /\ (m >= d \/ m = 0) => res.err = "nil"
            /\ otherDecoderErr = res.err

C10_Witness ==
    /\ DepthLimitTried
    /\ treeDepth(doc.Roots) = 3 /\ dopts.MaxDepth = 2
    /\ res.err = "ErrDepthLimitExceeded"
    /\ res.info = <<3, 2>>

---------------------------------------------------------------------------
(* The event stream of a decoded document (SpecEvents) *)

\* The events NextEvent has returned so far.
RECURSIVE eventsOf(_)
eventsOf(returns) ==
    IF returns = <<>> THEN <<>>
    ELSE (IF Head(returns).err = "nil" THEN <<Head(returns).event>> ELSE <<>>)
         \o eventsOf(Tail(returns))

\* The pre-order traversal of a forest at a depth, nil entries left out.
RECURSIVE traversal(_, _)
traversal(nodes, depth) ==
    IF nodes = <<>> THEN <<>>
    ELSE LET n == Head(nodes)
             here == IF n = NilNode THEN <<>>
                     ELSE IF n.Kind = NodeObject
                     THEN <<Event(EventObjectStart, n.Key, depth, <<>>, <<>>)>>
                          \o traversal(n.Children, depth + 1)
                          \o <<Event(EventObjectEnd, n.Key, depth, <<>>, <<>>)>>
                     ELSE IF n.Kind = NodeString
                     THEN <<Event(EventString, n.Key, depth, n.StringValue, <<>>)>>
                     ELSE <<Event(EventUint32, n.Key, depth, <<>>, n.Uint32Value)>>
         IN  here \o traversal(Tail(nodes), depth)

RECURSIVE countKind(_, _)
countKind(nodes, kinds) ==
    IF nodes = <<>> THEN 0
    ELSE (IF Head(nodes).Kind \in kinds THEN 1 ELSE 0)
         + countKind(Head(nodes).Children, kinds) + countKind(Tail(nodes), kinds)

Drained == events # <<>> /\ events[1].finished

\* C7: draining NextEvent over a decoded document yields DocumentStart
\* (depth 0), then the pre-order traversal of the roots in source order,
\* each Object as ObjectStart, its children's events, and an ObjectEnd with
\* the same key and depth, each leaf as one event with its key and value,
\* roots at depth 1 and children one deeper, nothing for nil roots and nil
\* children, then DocumentEnd (depth 0): 2 + 2*objects + leaves events.
C7_EventSequence ==
    Drained =>
        /\ eventsOf(emitted) =
              <<Event(EventDocumentStart, <<>>, 0, <<>>, <<>>)>>
              \o traversal(decoded[1].Roots, 1)
              \o <<Event(EventDocumentEnd, <<>>, 0, <<>>, <<>>)>>
        /\ Len(eventsOf(emitted)) =
              2 + 2 * countKind(decoded[1].Roots, {NodeObject})
                + countKind(decoded[1].Roots, {NodeString, NodeUint32})

C7_Witness ==
    /\ Drained
    /\ hasNil(decoded[1].Roots)
    /\ countKind(decoded[1].Roots, {NodeObject}) = 2
    /\ countKind(decoded[1].Roots, {NodeUint32}) = 1
    /\ treeDepth(decoded[1].Roots) = 3
    /\ Len(eventsOf(emitted)) = 7

IsDocumentEnd(r) == r.err = "nil" /\ r.event.Type = EventDocumentEnd

\* C8: once NextEvent has returned DocumentEnd, every later call returns
\* io.EOF with an empty event, DocumentEnd is never returned again, and the
\* iterator (finished, empty stack) no longer changes.
C8_ExhaustedStaysExhausted ==
    [][ (\E i \in 1..Len(emitted) : IsDocumentEnd(emitted[i])) =>
            /\ events' = events
            /\ events[1].finished /\ events[1].stack = <<>>
            /\ decoded' = decoded /\ decodeErr' = decodeErr
            /\ emitted' \in {emitted, Append(emitted, Returned(EmptyEvent, "io.EOF"))} ]_vars

C8_Witness ==
    /\ Len(emitted) > MaxNextCalls
    /\ IsDocumentEnd(emitted[Len(emitted) - MaxNextCalls])
    /\ \A i \in (Len(emitted) - MaxNextCalls + 1)..Len(emitted) :
          emitted[i] = Returned(EmptyEvent, "io.EOF")
    /\ countNodes(decoded[1].Roots) = MaxNodes

---------------------------------------------------------------------------
(* The node limit on decode (SpecLimits): the caller builds a document of  *)
(* plain nodes, encodes it, and decodes it under a node-count ceiling.     *)

LimitNodes ==
    { NewObjectNode(kA), NewStringNode(kB, vPlain), NewUint32Node(kA, uSample) }

\* The node limits tried; 0 is no limit.
NodeLimitSet == { DecodeOptions(FormatAuto, FALSE, 0, maxNodes) : maxNodes \in 0..3 }

NextLimits ==
    \/ \E n \in LimitNodes : BuildAddRoot(n)
    \/ \E n \in LimitNodes : \E path \in objectPaths(doc.Roots) : BuildAdd(path, n)
    \/ WriteStringDoc
    \/ AppendBinaryDoc
    \/ \E o \in NodeLimitSet : ParseBytes(o)

SpecLimits == InitCodec /\ [][NextLimits]_vars

NodeLimitTried == phase = "decoded" /\ ~ dopts.Strict /\ dopts.MaxDepth = 0

\* C11: with MaxDepth unset, a document of n nodes (objects and leaves, at
\* every level) decoded from text or binary with MaxNodes = k > 0 fails with
\* ErrNodeLimitExceeded when n > k and succeeds when n <= k; MaxNodes = 0
\* imposes no limit; no document of more than k nodes is returned.
C11_NodeLimit ==
    NodeLimitTried =>
        LET n == countNodes(doc.Roots)
            k == dopts.MaxNodes
        IN  /\ (k > 0 /\ n > k) => (res.err = "ErrNodeLimitExceeded" /\ res.doc = <<>>)
            /\ (k = 0 \/ n <= k) =>
                  (res.err = "nil" /\ countNodes(res.doc[1].Roots) = n)
            /\ (k > 0 /\ res.doc # <<>>) => countNodes(res.doc[1].Roots) <= k

\* A narrow and deep document of three nodes refused under MaxNodes = 2.
C11_Witness ==
    /\ NodeLimitTried
    /\ countNodes(doc.Roots) = 3 /\ treeDepth(doc.Roots) = 3
    /\ dopts.MaxNodes = 2
    /\ res.err = "ErrNodeLimitExceeded" /\ res.info = <<3, 2>>

\* A wide and shallow document of three nodes refused under MaxNodes = 2.
C11_WideRefused ==
    /\ NodeLimitTried
    /\ Len(doc.Roots) = 3 /\ dopts.MaxNodes = 2
    /\ res.err = "ErrNodeLimitExceeded"

---------------------------------------------------------------------------
(* Sibling order of the encoders (SpecOrder): the caller builds a document *)
(* and encodes it with AppendText or AppendBinary, Deterministic on or off. *)

OrderNodes ==
    { NewObjectNode(kA), NewObjectNode(kB),
      NewStringNode(kA, vPlain), NewStringNode(kB, vPlain), NewUint32Node(kA, uSample) }

\* AppendText / AppendBinary(nil, doc, o): the encoder made for the call
\* holds the normalized options.
AppendWith(format, o) ==
    /\ phase = "build"
    /\ opts' = normalizeEncodeOptions([o EXCEPT !.Format = format])
    /\ LET r == appendEncoded(doc, [o EXCEPT !.Format = format])
       IN  wire' = [format |-> format, bytes |-> r.bytes, err |-> r.err]
    /\ phase' = "encoded"
    /\ UNCHANGED <<doc, dopts, res, manualDepth, manualBinaryUsed, manualBinaryFinished,
                   w, wcap, hist, decVars, heapVars, poolVars>>

NextOrder ==
    \/ \E n \in OrderNodes : BuildAddRoot(n)
    \/ \E n \in OrderNodes : \E path \in objectPaths(doc.Roots) : BuildAdd(path, n)
    \/ \E format \in {FormatText, FormatBinary} : \E deterministic \in BOOLEAN :
          AppendWith(format, EncodeOptions(FormatAuto, FALSE, deterministic, FALSE))

SpecOrder == InitCodec /\ [][NextOrder]_vars

\* The entries of a sibling list that carry key k, in their order.
RECURSIVE withKey(_, _)
withKey(nodes, k) ==
    IF nodes = <<>> THEN <<>>
    ELSE (IF Head(nodes).Key = k THEN <<Head(nodes)>> ELSE <<>>) \o withKey(Tail(nodes), k)

\* got holds the entries of want in ascending key order at every level,
\* entries with equal keys in the order they have in want.
RECURSIVE stablySorted(_, _)
stablySorted(got, want) ==
    /\ Len(got) = Len(want)
    /\ \A i \in 1..(Len(got) - 1) : ~ StrLess(got[i + 1].Key, got[i].Key)
    /\ \A j \in 1..Len(want) :
          LET g == withKey(got, want[j].Key)
              v == withKey(want, want[j].Key)
          IN  /\ Len(g) = Len(v)
              /\ \A i \in 1..Len(v) :
                    /\ g[i].Kind = v[i].Kind
                    /\ g[i].StringValue = v[i].StringValue
                    /\ g[i].Uint32Value = v[i].Uint32Value
                    /\ stablySorted(g[i].Children, v[i].Children)

\* The sibling list at path with entries i and i+1 exchanged.
RECURSIVE swapAt(_, _, _)
swapAt(nodes, path, i) ==
    IF path = <<>> THEN [nodes EXCEPT ![i] = nodes[i + 1], ![i + 1] = nodes[i]]
    ELSE [nodes EXCEPT ![path[1]].Children = swapAt(@, Tail(path), i)]

\* The documents that differ from d by one exchange of two neighbours with
\* different keys.
neighbourSwaps(d) ==
    { [d EXCEPT !.Roots = swapAt(@, path, i)] :
        <<path, i>> \in { pi \in ({<<>>} \cup objectPaths(d.Roots)) \X (1..MaxNodes) :
                            /\ pi[2] < Len(nodesAt(d.Roots, pi[1]))
                            /\ nodesAt(d.Roots, pi[1])[pi[2]].Key
                                 # nodesAt(d.Roots, pi[1])[pi[2] + 1].Key } }

Encoded == phase = "encoded" /\ wire.err = "nil"

binaryOrder ==
    parseBinaryDocument(AppendBinary(doc, opts).bytes, DecodeOptions(FormatBinary, FALSE, 0, 0))

\* C12: with Deterministic the binary and the text encoder emit the roots
\* and every object's children in ascending key order, equal keys in source
\* order, so trees that differ only in the order of siblings with different
\* keys encode to the same bytes; without it they emit the source order.
C12_DeterministicOrder ==
    Encoded =>
        /\ binaryOrder.err = "nil"
        /\ IF opts.Deterministic
           THEN /\ stablySorted(binaryOrder.doc[1].Roots, doc.Roots)
                /\ \A d \in neighbourSwaps(doc) :
                      appendEncoded(d, opts).bytes = wire.bytes
           ELSE binaryOrder.doc[1].Roots = doc.Roots
        /\ wire.format = FormatText =>
              wire.bytes = AppendText(binaryOrder.doc[1],
                                      [opts EXCEPT !.Deterministic = FALSE]).bytes

\* Three roots k, \n, k encoded deterministically: \n first, the two k
\* entries in source order.
C12_Witness ==
    /\ Encoded /\ opts.Deterministic /\ wire.format = FormatBinary
    /\ Len(doc.Roots) = 3
    /\ doc.Roots[1].Key = kA /\ doc.Roots[2].Key = kB /\ doc.Roots[3].Key = kA
    /\ doc.Roots[1] # doc.Roots[3]
    /\ binaryOrder.doc[1].Roots = <<doc.Roots[2], doc.Roots[1], doc.Roots[3]>>


-----------------------------------------------------------------------------
(* Document.Validate over nodes with identity.  heap.nodes[id] is the Node
   behind pointer id, its Children hold pointers (0 is the nil pointer), and
   heap.doc is the optional Document: <<>> is a nil *Document, <<roots>> a
   Document whose Roots hold pointers. *)

MaxHeap == 2
MaxLinks == 3

Invalid(why) == [err |-> "ErrInvalidNodeState", info |-> <<why>>]

objectHasScalarStringOnly(node) == node.StringValue # <<>>

objectHasScalar(node) == node.StringValue # <<>> \/ node.Uint32Value # <<>>

RECURSIVE validateNodeSeen(_, _, _)
RECURSIVE validateChildren(_, _, _, _)

\* The loop over node.Children from index i on; the first error is returned.
validateChildren(h, children, i, seen) ==
    IF i > Len(children) THEN NoError
    ELSE IF validateNodeSeen(h, children[i], seen) # NoError
         THEN validateNodeSeen(h, children[i], seen)
         ELSE validateChildren(h, children, i + 1, seen)

\* seen holds the nodes between the root and this call: a node is entered on
\* the way down and deleted again when its call returns.
validateNodeSeen(h, id, seen) ==
    IF id = 0 THEN Invalid("nil node")
    ELSE IF id \in seen THEN Invalid("cyclic node")
    ELSE IF h.nodes[id].Kind = NodeObject THEN
        IF objectHasScalar(h.nodes[id]) THEN Invalid("object has scalar payload")
        ELSE validateChildren(h, h.nodes[id].Children, 1, seen \cup {id})
    ELSE IF h.nodes[id].Kind = NodeString THEN
        IF h.nodes[id].StringValue = <<>> THEN Invalid("string node missing value")
        ELSE IF h.nodes[id].Uint32Value # <<>> \/ Len(h.nodes[id].Children) # 0
             THEN Invalid("string node has invalid extra data")
             ELSE NoError
    ELSE IF h.nodes[id].Kind = NodeUint32 THEN
        IF h.nodes[id].Uint32Value = <<>> THEN Invalid("uint32 node missing value")
        ELSE IF h.nodes[id].StringValue # <<>> \/ Len(h.nodes[id].Children) # 0
             THEN Invalid("uint32 node has invalid extra data")
             ELSE NoError
    ELSE Invalid("unknown node kind")

DocumentValidate(h) ==
    IF h.doc = <<>> THEN Invalid("nil document")
    ELSE validateChildren(h, h.doc[1], 1, {})

\* What the constructors return, and Node literals with fields that do not
\* belong to their kind.
ConstructedNodes ==
    { NewObjectNode(kA), NewStringNode(kA, vPlain), NewUint32Node(kA, uSample) }

LiteralNodes ==
    { [NewObjectNode(kA) EXCEPT !.StringValue = <<vPlain>>],
      [NewObjectNode(kA) EXCEPT !.Uint32Value = <<uSample>>],
      [NewStringNode(kA, vPlain) EXCEPT !.StringValue = <<>>],
      [NewStringNode(kA, vPlain) EXCEPT !.Uint32Value = <<uSample>>],
      [NewUint32Node(kA, uSample) EXCEPT !.Uint32Value = <<>>],
      [NewUint32Node(kA, uSample) EXCEPT !.StringValue = <<vPlain>>],
      [NewObjectNode(kA) EXCEPT !.Kind = 0] }

nodeIds(h) == 1..Len(h.nodes)

RECURSIVE linkCount(_, _)
linkCount(h, id) ==
    IF id > Len(h.nodes) THEN (IF h.doc = <<>> THEN 0 ELSE Len(h.doc[1]))
    ELSE Len(h.nodes[id].Children) + linkCount(h, id + 1)

\* A write that the constructors and Add/AddRoot cannot produce.
hasDirectWrite(h) ==
    \/ \E id \in nodeIds(h) :
          \/ h.nodes[id] \notin { [n EXCEPT !.Children = h.nodes[id].Children] : n \in ConstructedNodes }
          \/ h.nodes[id].Kind # NodeObject /\ h.nodes[id].Children # <<>>
          \/ \E i \in 1..Len(h.nodes[id].Children) : h.nodes[id].Children[i] = 0
    \/ h.doc # <<>> /\ \E i \in 1..Len(h.doc[1]) : h.doc[1][i] = 0

\* n := NewObjectNode(..) / NewStringNode(..) / NewUint32Node(..)
AllocNode(n) ==
    /\ phase = "alloc"
    /\ Len(heap.nodes) < MaxHeap
    /\ heap' = [heap EXCEPT !.nodes = Append(@, n)]
    /\ UNCHANGED <<doc, phase, wire, dopts, res, gomap, encVars, decVars, poolVars>>

\* n := &Node{...}
AllocLiteral(n) ==
    /\ phase = "alloc"
    /\ Len(heap.nodes) < MaxHeap
    /\ ~hasDirectWrite(heap)
    /\ heap' = [heap EXCEPT !.nodes = Append(@, n)]
    /\ UNCHANGED <<doc, phase, wire, dopts, res, gomap, encVars, decVars, poolVars>>

\* parent.Add(child)
HeapAdd(parent, child) ==
    /\ phase \in {"alloc", "link"}
    /\ linkCount(heap, 1) < MaxLinks
    /\ parent \in nodeIds(heap) /\ child \in nodeIds(heap)
    /\ heap' = IF heap.nodes[parent].Kind # NodeObject THEN heap
               ELSE [heap EXCEPT !.nodes[parent].Children = Append(@, child)]
    /\ phase' = "link"
    /\ UNCHANGED <<doc, wire, dopts, res, gomap, encVars, decVars, poolVars>>

\* d.AddRoot(node)
HeapAddRoot(node) ==
    /\ phase \in {"alloc", "link"}
    /\ linkCount(heap, 1) < MaxLinks
    /\ node \in nodeIds(heap)
    /\ heap' = IF heap.doc = <<>> THEN heap
               ELSE [heap EXCEPT !.doc[1] = Append(@, node)]
    /\ phase' = "link"
    /\ UNCHANGED <<doc, wire, dopts, res, gomap, encVars, decVars, poolVars>>

\* parent.Children = append(parent.Children, child), child possibly nil
CallerAppendsChild(parent, child) ==
    /\ phase \in {"alloc", "link"}
    /\ linkCount(heap, 1) < MaxLinks
    /\ ~hasDirectWrite(heap)
    /\ parent \in nodeIds(heap) /\ child \in {0} \cup nodeIds(heap)
    /\ heap' = [heap EXCEPT !.nodes[parent].Children = Append(@, child)]
    /\ phase' = "link"
    /\ UNCHANGED <<doc, wire, dopts, res, gomap, encVars, decVars, poolVars>>

\* d.Roots = append(d.Roots, nil)
CallerAppendsNilRoot ==
    /\ phase \in {"alloc", "link"}
    /\ linkCount(heap, 1) < MaxLinks
    /\ ~hasDirectWrite(heap)
    /\ heap.doc # <<>>
    /\ heap' = [heap EXCEPT !.doc[1] = Append(@, 0)]
    /\ phase' = "link"
    /\ UNCHANGED <<doc, wire, dopts, res, gomap, encVars, decVars, poolVars>>

\* err := d.Validate()
ValidateCall ==
    /\ phase \in {"alloc", "link"}
    /\ res' = DocFail(DocumentValidate(heap).err, DocumentValidate(heap).info)
    /\ phase' = "validated"
    /\ UNCHANGED <<doc, wire, dopts, heapVars, poolVars, encVars, decVars>>

InitGraph ==
    /\ IdleEncoder
    /\ doc = NewDocument /\ wire = NoWire
    /\ dopts = DecodeOptions(FormatAuto, FALSE, 0, 0)
    /\ res = DocFail("nil", <<>>)
    /\ phase = "alloc"
    /\ IdleDecoder
    /\ heap \in { EmptyHeap, [EmptyHeap EXCEPT !.doc = <<>>] }
    /\ gomap = <<>>
    /\ IdlePool

NextGraph ==
    \/ \E n \in ConstructedNodes : AllocNode(n)
    \/ \E n \in LiteralNodes : AllocLiteral(n)
    \/ \E parent, child \in 1..MaxHeap : HeapAdd(parent, child)
    \/ \E node \in 1..MaxHeap : HeapAddRoot(node)
    \/ \E parent \in 1..MaxHeap, child \in 0..MaxHeap : CallerAppendsChild(parent, child)
    \/ CallerAppendsNilRoot
    \/ ValidateCall

SpecGraph == InitGraph /\ [][NextGraph]_vars


-----------------------------------------------------------------------------
(* Claims about Document.Validate *)

pointersOf(h, ids) ==
    UNION { { h.nodes[id].Children[i] : i \in 1..Len(h.nodes[id].Children) } : id \in ids \ {0} }

RECURSIVE closure(_, _)
closure(h, ids) ==
    IF pointersOf(h, ids) \subseteq ids THEN ids
    ELSE closure(h, ids \cup pointersOf(h, ids))

rootPointers(h) == IF h.doc = <<>> THEN {} ELSE { h.doc[1][i] : i \in 1..Len(h.doc[1]) }

\* Every pointer the document leads to, the nil pointer included.
reachable(h) == closure(h, rootPointers(h))

fieldsMatchKind(n) ==
    \/ n.Kind = NodeObject /\ n.StringValue = <<>> /\ n.Uint32Value = <<>>
    \/ n.Kind = NodeString /\ n.StringValue # <<>> /\ n.Uint32Value = <<>> /\ n.Children = <<>>
    \/ n.Kind = NodeUint32 /\ n.Uint32Value # <<>> /\ n.StringValue = <<>> /\ n.Children = <<>>

ownAncestor(h, id) == id \in closure(h, pointersOf(h, {id}))

invalidState(h) ==
    \/ h.doc = <<>>
    \/ 0 \in reachable(h)
    \/ \E id \in reachable(h) \ {0} : ~fieldsMatchKind(h.nodes[id]) \/ ownAncestor(h, id)

C13_Outcome ==
    phase = "validated" =>
        /\ invalidState(heap) => res.err = "ErrInvalidNodeState"
        /\ ~invalidState(heap) => res.err = "nil"

C13_DocumentUntouched == phase' = "validated" => heap' = heap

\* C13: Validate returns ErrInvalidNodeState exactly when the document is nil
\* or a reachable node is nil, of unknown kind, carries fields that do not
\* belong to its kind, or is its own ancestor; it returns nil otherwise, it
\* returns on cyclic graphs too, and it leaves the document as it was.
C13_Validate == [](C13_Outcome) /\ [][C13_DocumentUntouched]_vars

\* A well-formed object that was added to itself is refused as a cycle.
C13_Witness ==
    /\ phase = "validated"
    /\ heap.doc # <<>>
    /\ \E id \in reachable(heap) \ {0} : ownAncestor(heap, id)
    /\ 0 \notin reachable(heap)
    /\ \A id \in reachable(heap) : fieldsMatchKind(heap.nodes[id])
    /\ res.err = "ErrInvalidNodeState" /\ res.info = <<"cyclic node">>

\* A document of well-formed nodes without a cycle is accepted.
C13_ValidAccepted ==
    /\ phase = "validated"
    /\ ~invalidState(heap)
    /\ Len(heap.doc[1]) > 0 /\ linkCount(heap, 1) = MaxLinks
    /\ res.err = "nil"


countIn(list, id) == Cardinality({ i \in 1..Len(list) : list[i] = id })

RECURSIVE sumOver(_, _, _)
sumOver(h, ids, id) ==
    IF ids = {} THEN 0
    ELSE countIn(h.nodes[CHOOSE p \in ids : TRUE].Children, id)
         + sumOver(h, ids \ {CHOOSE p \in ids : TRUE}, id)

\* At how many positions of the document's tree the node behind id sits.
positionsOf(h, id) ==
    (IF h.doc = <<>> THEN 0 ELSE countIn(h.doc[1], id)) + sumOver(h, reachable(h) \ {0}, id)

sharedNodes(h) == { id \in nodeIds(h) : positionsOf(h, id) >= 2 }

\* C14: Validate fails with ErrInvalidNodeState whenever one Node instance
\* occurs at two positions of the document's tree, also when neither position
\* is below the other.
C14_SharedNodeRefused ==
    phase = "validated" /\ sharedNodes(heap) # {} => res.err = "ErrInvalidNodeState"

\* One leaf added twice as a root: no node is its own ancestor, two positions
\* hold the same instance, and Validate returns nil.
C14_SharedNodeAccepted ==
    /\ phase = "validated"
    /\ sharedNodes(heap) # {}
    /\ ~invalidState(heap)
    /\ res.err = "nil"


-----------------------------------------------------------------------------
(* Map conversions.  A Map is a function from keys to values; a value is
   tagged with its Go type.  A nil pointer dereference is the run-time panic
   the Go runtime raises, recorded as the outcome Panic. *)

EmptyMap == <<>>
MString(v) == [t |-> "string", v |-> v]
MUint32(v) == [t |-> "uint32", v |-> v]
MMap(m) == [t |-> "Map", v |-> m]
MNil == [t |-> "nil", v |-> <<>>]
Panic == [t |-> "panic", v |-> <<>>]

mapSetKeepsFirst(m, key, value) == m @@ (key :> value)

\* m[key] = value
mapSet(m, key, value) == (key :> value) @@ m

StrictOk(value) == [err |-> "nil", info |-> <<>>, v |-> value]
StrictFail(e, key) == [err |-> e, info |-> <<key>>, v |-> MNil]

RECURSIVE nodeToStrictValue(_)
RECURSIVE strictEntries(_, _, _)
RECURSIVE strictEntry(_, _, _, _)

\* The loop of ToMapStrict over d.Roots and of nodeToStrictValue over
\* node.Children, from index i on, with the map built so far.
strictEntries(nodes, i, m) ==
    IF i > Len(nodes) THEN StrictOk(MMap(m))
    ELSE IF nodes[i].Key \in DOMAIN m
         THEN StrictFail("ErrDuplicateKeyInStrictMode", nodes[i].Key)
         ELSE strictEntry(nodes, i, m, nodeToStrictValue(nodes[i]))

strictEntry(nodes, i, m, r) ==
    IF r.err # "nil" THEN r
    ELSE strictEntries(nodes, i + 1, mapSet(m, nodes[i].Key, r.v))

nodeToStrictValue(node) ==
    IF node.Kind = NodeString THEN
        IF node.StringValue = <<>> THEN StrictOk(Panic) ELSE StrictOk(MString(node.StringValue[1]))
    ELSE IF node.Kind = NodeUint32 THEN
        IF node.Uint32Value = <<>> THEN StrictOk(Panic) ELSE StrictOk(MUint32(node.Uint32Value[1]))
    ELSE IF node.Kind = NodeObject THEN strictEntries(node.Children, 1, EmptyMap)
    ELSE StrictFail("ErrInvalidNodeState", <<>>)

\* Document.ToMapStrict: [err, info, v]
ToMapStrict(d) ==
    IF Validate(d) # "nil" THEN StrictFail(Validate(d), <<>>)
    ELSE strictEntries(d.Roots, 1, EmptyMap)

RECURSIVE nodeToLossyValue(_)
RECURSIVE lossyChildren(_, _, _)
RECURSIVE lossyChild(_, _, _, _)

\* The loop of nodeToLossyValue over node.Children: child.Key of a nil child
\* is a nil pointer dereference.
lossyChildren(nodes, i, m) ==
    IF i > Len(nodes) THEN MMap(m)
    ELSE IF nodes[i] = NilNode THEN Panic
    ELSE lossyChild(nodes, i, m, nodeToLossyValue(nodes[i]))

lossyChild(nodes, i, m, value) ==
    IF value = Panic THEN Panic
    ELSE lossyChildren(nodes, i + 1, mapSet(m, nodes[i].Key, value))

nodeToLossyValue(node) ==
    IF node.Kind = NodeString THEN
        IF node.StringValue = <<>> THEN Panic ELSE MString(node.StringValue[1])
    ELSE IF node.Kind = NodeUint32 THEN
        IF node.Uint32Value = <<>> THEN Panic ELSE MUint32(node.Uint32Value[1])
    ELSE IF node.Kind = NodeObject THEN lossyChildren(node.Children, 1, EmptyMap)
    ELSE MNil

RECURSIVE lossyRoots(_, _, _)
RECURSIVE lossyRoot(_, _, _, _)

\* The loop of ToMapLossy over d.Roots: a nil root is skipped.
lossyRoots(nodes, i, m) ==
    IF i > Len(nodes) THEN MMap(m)
    ELSE IF nodes[i] = NilNode THEN lossyRoots(nodes, i + 1, m)
    ELSE lossyRoot(nodes, i, m, nodeToLossyValue(nodes[i]))

lossyRoot(nodes, i, m, value) ==
    IF value = Panic THEN Panic
    ELSE lossyRoots(nodes, i + 1, mapSet(m, nodes[i].Key, value))

\* Document.ToMapLossy
ToMapLossy(d) == lossyRoots(d.Roots, 1, EmptyMap)

MapNodes ==
    { NewObjectNode(kA), NewObjectNode(kB), NewStringNode(kA, vPlain),
      NewStringNode(kA, sEmpty), NewUint32Node(kB, uSample) }

\* The caller puts a nil entry into the root list or into an object's children.
BuildInsertNil(path, i) ==
    /\ phase = "build"
    /\ ~hasNil(doc.Roots)
    /\ doc' = [doc EXCEPT !.Roots = insertNilAt(@, path, i)]
    /\ UNCHANGED <<phase, wire, dopts, res, encVars, decVars, heapVars, poolVars>>

\* m, err := d.ToMapStrict()
ToMapStrictCall ==
    /\ phase = "build"
    /\ res' = [err |-> ToMapStrict(doc).err, info |-> ToMapStrict(doc).info,
               doc |-> <<>>, map |-> ToMapStrict(doc).v]
    /\ phase' = "strict"
    /\ UNCHANGED <<doc, wire, dopts, encVars, decVars, heapVars, poolVars>>

\* m := d.ToMapLossy()
ToMapLossyCall ==
    /\ phase = "build"
    /\ res' = [err |-> "nil", info |-> <<>>, doc |-> <<>>, map |-> ToMapLossy(doc)]
    /\ phase' = "lossy"
    /\ UNCHANGED <<doc, wire, dopts, encVars, decVars, heapVars, poolVars>>

NextMaps ==
    \/ \E n \in MapNodes : BuildAddRoot(n)
    \/ \E n \in MapNodes : \E path \in objectPaths(doc.Roots) : BuildAdd(path, n)
    \/ \E path \in {<<>>} \cup objectPaths(doc.Roots) :
          \E i \in 1..(Len(nodesAt(doc.Roots, path)) + 1) : BuildInsertNil(path, i)
    \/ ToMapStrictCall
    \/ ToMapLossyCall

SpecMaps == InitCodec /\ [][NextMaps]_vars

-----------------------------------------------------------------------------
(* Claims about the map conversions *)

RECURSIVE valueOf(_)
RECURSIVE lastWins(_)

\* Every key of the level mapped to the value of the last entry with that key.
lastWins(nodes) ==
    [k \in { nodes[i].Key : i \in 1..Len(nodes) } |->
        valueOf(nodes[CHOOSE i \in 1..Len(nodes) :
                    /\ nodes[i].Key = k
                    /\ \A j \in (i + 1)..Len(nodes) : nodes[j].Key # k])]

valueOf(node) ==
    IF node.Kind = NodeString THEN MString(node.StringValue[1])
    ELSE IF node.Kind = NodeUint32 THEN MUint32(node.Uint32Value[1])
    ELSE MMap(lastWins(node.Children))

\* C15: on a valid document ToMapStrict fails with ErrDuplicateKeyInStrictMode
\* exactly when two entries of one level share a key and otherwise returns
\* the nested map of all entries; ToMapLossy never fails and maps every key
\* of a level to the value of the last entry with that key.
C15_DuplicateKeyPolicy ==
    Validate(doc) = "nil" =>
        /\ phase = "strict" =>
              /\ hasDuplicateScope(doc.Roots) <=> res.err = "ErrDuplicateKeyInStrictMode"
              /\ ~hasDuplicateScope(doc.Roots) =>
                    res.err = "nil" /\ res.map = MMap(lastWins(doc.Roots))
        /\ phase = "lossy" =>
              res.err = "nil" /\ res.map = MMap(lastWins(doc.Roots))

\* Two leaves with the same key under one object: the lossy map holds the
\* second value.
C15_Witness ==
    /\ phase = "lossy"
    /\ Validate(doc) = "nil"
    /\ Len(doc.Roots) = 1 /\ doc.Roots[1].Key = kB
    /\ doc.Roots[1].Children = <<NewStringNode(kA, vPlain), NewStringNode(kA, sEmpty)>>
    /\ res.map = MMap(kB :> MMap(kA :> MString(sEmpty)))

\* The same document is refused by the strict conversion.
C15_StrictRefuses ==
    /\ phase = "strict"
    /\ Len(doc.Roots) = 1 /\ hasDuplicateScope(doc.Roots)
    /\ Len(doc.Roots[1].Children) = 2
    /\ res.err = "ErrDuplicateKeyInStrictMode"


RECURSIVE withoutNil(_)
withoutNil(nodes) ==
    IF nodes = <<>> THEN <<>>
    ELSE IF Head(nodes) = NilNode THEN withoutNil(Tail(nodes))
    ELSE <<[Head(nodes) EXCEPT !.Children = withoutNil(@)]>> \o withoutNil(Tail(nodes))

\* C16: ToMapLossy on a document with a nil root or a nil child at any depth
\* returns the map of the remaining entries, without error or crash.
C16_NilSkipped ==
    phase = "lossy" /\ hasNil(doc.Roots) =>
        res.err = "nil" /\ res.map = MMap(lastWins(withoutNil(doc.Roots)))

\* A nil entry among the roots is skipped.
C16_NilRootSkipped ==
    /\ phase = "lossy"
    /\ \E i \in 1..Len(doc.Roots) : doc.Roots[i] = NilNode
    /\ Len(doc.Roots) > 1
    /\ res.map = MMap(lastWins(withoutNil(doc.Roots)))

\* A nil entry among the children of an object ends the conversion in a
\* nil pointer dereference.
C16_NilChildPanics ==
    /\ phase = "lossy"
    /\ hasNil(doc.Roots)
    /\ \A i \in 1..Len(doc.Roots) : doc.Roots[i] # NilNode
    /\ res.map = Panic


-----------------------------------------------------------------------------
(* FromMap.  A Go int, int64 or float64 is held as <<hi, lo>> for the number
   hi * 65536 + lo with lo in 0..65535, so that hi < 0 is a negative number
   and hi > 65535 one above math.MaxUint32; a float64 is <<hi, lo, tenths>>
   with its first decimal digit.  Go ranges over a map in an unspecified order:
   every order is an outcome. *)

MInt(v) == [t |-> "int", v |-> v]
MInt64(v) == [t |-> "int64", v |-> v]
MFloat64(v, tenths) == [t |-> "float64", v |-> <<v[1], v[2], tenths>>]
MBool(b) == [t |-> "bool", v |-> IF b THEN <<1>> ELSE <<0>>]
MAnyMap(m) == [t |-> "map[string]any", v |-> m]

NodeOk(n) == [err |-> "nil", info |-> <<>>, node |-> n]
NodeFail(e, key) == [err |-> e, info |-> <<key>>, node |-> NilNode]
ChildrenOk(ns) == [err |-> "nil", info |-> <<>>, nodes |-> ns]

intOutOfRangeNegativeOnly(val) == val[1] < 0

\* val < 0 || val > math.MaxUint32
intOutOfRange(val) == val[1] < 0 \/ val[1] > 65535

RECURSIVE mapValueToNode(_, _)
RECURSIVE childrenFrom(_, _, _)

objectOf(key, c) ==
    IF c.err # "nil" THEN NodeFail(c.err, c.info[1])
    ELSE NodeOk([NewObjectNode(key) EXCEPT !.Children = @ \o c.nodes])

\* The range loop of mapToNodeChildren with the keys not yet visited and the
\* children appended so far: the set of its possible results.
childrenFrom(m, keys, children) ==
    IF keys = {} THEN { ChildrenOk(children) }
    ELSE UNION { UNION { IF r.err # "nil"
                         THEN { [err |-> r.err, info |-> r.info, nodes |-> <<>>] }
                         ELSE childrenFrom(m, keys \ {key}, Append(children, r.node))
                         : r \in mapValueToNode(key, m[key]) }
                 : key \in keys }

mapToNodeChildren(m) == childrenFrom(m, DOMAIN m, <<>>)

mapValueToNode(key, value) ==
    IF value.t = "string" THEN { NodeOk(NewStringNode(key, value.v)) }
    ELSE IF value.t = "uint32" THEN { NodeOk(NewUint32Node(key, value.v)) }
    ELSE IF value.t \in {"int", "int64"} THEN
        IF intOutOfRange(value.v) THEN { NodeFail("ErrIntOutOfRange", key) }
        ELSE { NodeOk(NewUint32Node(key, value.v)) }
    ELSE IF value.t \in {"Map", "map[string]any"} THEN
        { objectOf(key, c) : c \in mapToNodeChildren(value.v) }
    ELSE IF value.t = "float64" THEN
        IF intOutOfRange(value.v) \/ value.v[3] # 0 THEN { NodeFail("ErrIntOutOfRange", key) }
        ELSE { NodeOk(NewUint32Node(key, <<value.v[1], value.v[2]>>)) }
    ELSE { NodeFail("ErrUnsupportedMapValueType", key) }

fromMapDocument(d) ==
    IF Validate(d) # "nil" THEN DocFail(Validate(d), <<>>) ELSE DocOk(d)

\* FromMap(rootKey, m): the set of its possible results [err, info, doc]
FromMap(rootKey, m) ==
    { IF c.err # "nil" THEN DocFail(c.err, c.info)
      ELSE fromMapDocument(AddRoot(NewDocumentWithFormat(FormatAuto),
                                   [NewObjectNode(rootKey) EXCEPT !.Children = @ \o c.nodes]))
      : c \in mapToNodeChildren(m) }

isMap(value) == value.t \in {"Map", "map[string]any"}

\* The key paths of the maps nested in m, m itself included.
RECURSIVE mapPaths(_)
mapPaths(m) ==
    { <<>> } \cup UNION { IF isMap(m[k]) THEN { <<k>> \o p : p \in mapPaths(m[k].v) } ELSE {}
                          : k \in DOMAIN m }

RECURSIVE mapPutAt(_, _, _, _)
mapPutAt(m, path, key, value) ==
    IF path = <<>> THEN mapSet(m, key, value)
    ELSE mapSet(m, path[1], [m[path[1]] EXCEPT !.v = mapPutAt(@, Tail(path), key, value)])

RECURSIVE countEntries(_, _)
countEntries(m, keys) ==
    IF keys = {} THEN 0
    ELSE 1 + (IF isMap(m[CHOOSE k \in keys : TRUE])
              THEN countEntries(m[CHOOSE k \in keys : TRUE].v, DOMAIN m[CHOOSE k \in keys : TRUE].v)
              ELSE 0)
           + countEntries(m, keys \ {CHOOSE k \in keys : TRUE})

MapValues ==
    { MString(vPlain), MUint32(uSample),
      MInt(<<0, 5>>), MInt(<<65535, 65535>>), MInt(<<-1, 65535>>), MInt(<<65536, 0>>),
      MInt64(<<65536, 0>>),
      MFloat64(<<0, 5>>, 0), MFloat64(<<0, 5>>, 5), MFloat64(<<65536, 0>>, 0),
      MBool(TRUE), MMap(EmptyMap), MAnyMap(EmptyMap) }

\* m[key] = value on the map at path
MapPut(path, key, value) ==
    /\ phase = "build"
    /\ countEntries(gomap, DOMAIN gomap) < MaxNodes
    /\ gomap' = mapPutAt(gomap, path, key, value)
    /\ UNCHANGED <<doc, phase, wire, dopts, res, heap, encVars, decVars, poolVars>>

\* doc, err := FromMap(rootKey, m)
FromMapCall(rootKey) ==
    /\ phase = "build"
    /\ \E r \in FromMap(rootKey, gomap) :
          res' = [err |-> r.err, info |-> r.info, doc |-> r.doc, rootKey |-> rootKey]
    /\ phase' = "frommap"
    /\ UNCHANGED <<doc, wire, dopts, heapVars, poolVars, encVars, decVars>>

NextFromMap ==
    \/ \E path \in mapPaths(gomap) : \E key \in BuildKeys : \E value \in MapValues :
          MapPut(path, key, value)
    \/ \E rootKey \in BuildKeys : FromMapCall(rootKey)

SpecFromMap == InitCodec /\ [][NextFromMap]_vars

-----------------------------------------------------------------------------
(* Claims about FromMap *)

inUint32(v) == v[1] >= 0 /\ v[1] <= 65535

\* The error a single value calls for, or "nil".
valueError(value) ==
    IF value.t \in {"int", "int64"} /\ ~inUint32(value.v) THEN "ErrIntOutOfRange"
    ELSE IF value.t = "float64" /\ ~(inUint32(value.v) /\ value.v[3] = 0) THEN "ErrIntOutOfRange"
    ELSE IF value.t \in {"string", "uint32", "int", "int64", "float64", "Map", "map[string]any"}
         THEN "nil"
    ELSE "ErrUnsupportedMapValueType"

\* The <<error, key>> pairs of the entries of m, at any nesting level, that
\* cannot become a node.
RECURSIVE offenders(_)
offenders(m) ==
    UNION { IF isMap(m[k]) THEN offenders(m[k].v)
            ELSE IF valueError(m[k]) # "nil" THEN { <<valueError(m[k]), k>> }
            ELSE {} : k \in DOMAIN m }

RECURSIVE correspond(_, _)
nodeFor(n, value) ==
    IF value.t = "string" THEN n = NewStringNode(n.Key, value.v)
    ELSE IF isMap(value) THEN
        n.Kind = NodeObject /\ n.StringValue = <<>> /\ n.Uint32Value = <<>>
        /\ correspond(n.Children, value.v)
    ELSE n = NewUint32Node(n.Key, <<value.v[1], value.v[2]>>)

\* The children and the entries of m correspond one to one.
correspond(children, m) ==
    /\ Len(children) = Cardinality(DOMAIN m)
    /\ \A k \in DOMAIN m : \E i \in 1..Len(children) :
          children[i].Key = k /\ nodeFor(children[i], m[k])

C17_Built ==
    /\ phase = "frommap"
    /\ Cardinality(DOMAIN gomap) = 2
    /\ \E k \in DOMAIN gomap : isMap(gomap[k]) /\ DOMAIN gomap[k].v # {}
    /\ res.err = "nil" /\ countNodes(res.doc[1].Roots) = 4


-----------------------------------------------------------------------------
(* ParseAuto over raw input.  The input is put together from single bytes
   and from paddings of the byte k that are one shorter than, and as long as,
   the look-ahead after the first byte, so that the first NUL can lie on
   either side of the window's end. *)

MaxChunks == 5

chPad == kA[1]

\* Single bytes and paddings in the input.
RECURSIVE chunkCount(_)
chunkCount(bytes) ==
    IF bytes = <<>> THEN 0
    ELSE IF Len(bytes) > 1 /\ bytes[1] = chPad /\ bytes[2] = chPad THEN chunkCount(Tail(bytes))
    ELSE 1 + chunkCount(Tail(bytes))

InputBytes == {0, 1, 2, 8}
InputPadLengths == {binaryLookAhead - 2, binaryLookAhead - 1}

\* data = append(data, b)
InputByte(b) ==
    /\ phase = "input"
    /\ chunkCount(wire.bytes) < MaxChunks
    /\ wire' = [wire EXCEPT !.bytes = Append(@, b)]
    /\ UNCHANGED <<doc, phase, dopts, res, encVars, decVars, heapVars, poolVars>>

\* data = append(data, "kk...k"...)
InputPad(n) ==
    /\ phase = "input"
    /\ chunkCount(wire.bytes) < MaxChunks
    /\ IF wire.bytes = <<>> THEN TRUE ELSE Last(wire.bytes) # chPad
    /\ wire' = [wire EXCEPT !.bytes = @ \o Repeat(<<chPad>>, n)]
    /\ UNCHANGED <<doc, phase, dopts, res, encVars, decVars, heapVars, poolVars>>

\* doc, err := ParseAuto(data)
ParseAuto ==
    /\ phase \in {"input", "encoded"}
    /\ wire.err = "nil"
    /\ dopts' = DecodeOptions(FormatAuto, FALSE, 0, 0)
    /\ res' = decodeBytes(wire.bytes, dopts')
    /\ phase' = "decoded"
    /\ UNCHANGED <<doc, wire, encVars, decVars, heapVars, poolVars>>

InitDetect ==
    /\ IdleEncoder /\ IdleDecoder /\ IdleHeap /\ IdlePool
    /\ doc = NewDocument /\ phase = "input" /\ wire = NoWire
    /\ dopts = DecodeOptions(FormatAuto, FALSE, 0, 0)
    /\ res = DocFail("nil", <<>>)

NextDetect ==
    \/ \E b \in InputBytes : InputByte(b)
    \/ \E n \in InputPadLengths : InputPad(n)
    \/ ParseAuto

SpecDetect == InitDetect /\ [][NextDetect]_vars

-----------------------------------------------------------------------------
(* Claims about format detection *)

\* The byte at index i of the input, counted from 0 as in the source.
byteAt(in, i) == in[i + 1]

\* First byte 0x00, 0x01 or 0x02, and a 0x00 among indices 1 to 49.
classifiedBinary(in) ==
    /\ Len(in) > 0
    /\ byteAt(in, 0) \in {0, 1, 2}
    /\ \E i \in 1..49 : i < Len(in) /\ byteAt(in, i) = 0

decodedAs(r, format) ==
    IF r.err # "nil" THEN r ELSE DocOk([r.doc[1] EXCEPT !.Format = format])

\* C18: auto-detection takes an input for Binary exactly when its first byte
\* is 0x00, 0x01 or 0x02 and a 0x00 lies among indices 1 to 49; every other
\* input is Text; the chosen decoder reads the input from its first byte.
C18_Detection ==
    phase = "decoded" =>
        res = IF classifiedBinary(wire.bytes)
              THEN decodedAs(parseBinaryDocument(wire.bytes, dopts), FormatBinary)
              ELSE decodedAs(parseTextDocument(wire.bytes, dopts), FormatText)

\* A NUL at index 49, the last of the window: a String entry with a key of
\* 48 bytes and an empty value is decoded as binary.
C18_Witness ==
    /\ phase = "decoded"
    /\ wire.bytes = <<1>> \o Repeat(<<chPad>>, 48) \o <<0, 0, 8>>
    /\ res.err = "nil" /\ res.doc[1].Format = FormatBinary
    /\ res.doc[1].Roots = <<NewStringNode(Repeat(<<chPad>>, 48), <<>>)>>

\* The same input with the NUL at index 50 is read by the text parser.
C18_BeyondWindow ==
    /\ phase = "decoded"
    /\ wire.bytes = <<1>> \o Repeat(<<chPad>>, 49) \o <<0>>
    /\ res = decodedAs(parseTextDocument(wire.bytes, dopts), FormatText)
    /\ res # decodedAs(parseBinaryDocument(wire.bytes, dopts), FormatBinary)


-----------------------------------------------------------------------------
(* ParseAuto over the library's own output: the caller builds a document,
   encodes it (WriteString, AppendBinary) and hands the bytes to ParseAuto.
   Keys of 48 and 49 bytes put the first NUL of the binary encoding at the
   last index of the look-ahead window and just beyond it. *)

kWindow == Repeat(<<chPad>>, binaryLookAhead - 2)
kBeyond == Repeat(<<chPad>>, binaryLookAhead - 1)
vSpaced == <<chSpace, 118>>

AutoNodes ==
    { NewObjectNode(kA), NewStringNode(kA, vPlain), NewUint32Node(kA, uSample) }

\* The first root, whose key decides the detection, also gets the long keys.
AutoFirstRoots ==
    { NewStringNode(kWindow, vPlain), NewObjectNode(kWindow), NewStringNode(kBeyond, vPlain),
      NewStringNode(kBeyond, vSpaced), NewObjectNode(kBeyond) }

NextAuto ==
    \/ \E n \in AutoNodes : BuildAddRoot(n)
    \/ \E n \in AutoFirstRoots : doc.Roots = <<>> /\ BuildAddRoot(n)
    \/ \E n \in AutoNodes : \E path \in objectPaths(doc.Roots) : BuildAdd(path, n)
    \/ WriteStringDoc
    \/ AppendBinaryDoc
    \/ ParseAuto

SpecAuto == InitCodec /\ [][NextAuto]_vars

-----------------------------------------------------------------------------
(* Claims about ParseAuto on encoded documents *)

lexerErrors ==
    { "ErrUnexpectedEOFInQuotedString", "ErrUnexpectedEOFInEscapeSequence",
      "ErrUnexpectedCharacter" }

misclassified == wire.format = FormatBinary /\ ~classifiedBinary(wire.bytes)

\* C19: a binary-encoded document that auto-detection takes for Text makes
\* ParseAuto fail with a lexer error; it never returns a document.
C19_MisclassifiedFailsInLexer ==
    phase = "decoded" /\ misclassified => res.err \in lexerErrors

\* The one-byte encoding of the empty document ends in a parser error.
C19_EmptyDocumentParserError ==
    /\ phase = "decoded" /\ misclassified
    /\ wire.bytes = <<binaryTypeMapEnd>>
    /\ res.err \notin lexerErrors \cup {"nil"}

\* A String leaf with a key of 49 bytes and the value " v" comes back as a
\* text-parsed document.
C19_MisclassifiedSucceeds ==
    /\ phase = "decoded" /\ misclassified
    /\ res.err = "nil" /\ res.doc[1].Format = FormatText


AutoDecoded(format) == phase = "decoded" /\ wire.format = format

\* ParseAuto(AppendBinary(D)) succeeds with Format = Binary and the tree of
\* D, for every document D without exception.
C20_EveryBinaryDocumentRecovered ==
    AutoDecoded(FormatBinary) =>
        res.err = "nil" /\ res.doc[1].Format = FormatBinary /\ res.doc[1].Roots = doc.Roots

\* C20: for every document D whose binary encoding has a NUL among indices
\* 1 to 49 (D is not empty and its first root key is at most 48 bytes long)
\* ParseAuto(AppendBinary(D)) succeeds with Format = Binary and the tree of
\* D; ParseAuto of the text encoding of D succeeds with Format = Text.
C20_OwnOutputRecovered ==
    /\ AutoDecoded(FormatBinary) /\ classifiedBinary(wire.bytes) =>
          res.err = "nil" /\ res.doc[1].Format = FormatBinary /\ res.doc[1].Roots = doc.Roots
    /\ AutoDecoded(FormatBinary) =>
          (classifiedBinary(wire.bytes) <=>
              doc.Roots # <<>> /\ Len(doc.Roots[1].Key) <= binaryLookAhead - 2)
    /\ AutoDecoded(FormatText) =>
          res.err = "nil" /\ res.doc[1].Format = FormatText

\* A first root key of 48 bytes: the NUL is the last byte of the window and
\* the document comes back from its binary encoding.
C20_Witness ==
    /\ AutoDecoded(FormatBinary)
    /\ countNodes(doc.Roots) = MaxNodes
    /\ doc.Roots[1].Key = kWindow
    /\ res.err = "nil" /\ res.doc[1].Format = FormatBinary /\ res.doc[1].Roots = doc.Roots

\* The text encoding of a document with a 49-byte key is detected as Text.
C20_TextDetected ==
    /\ AutoDecoded(FormatText)
    /\ countNodes(doc.Roots) = MaxNodes
    /\ doc.Roots[1].Key = kBeyond
    /\ res.err = "nil" /\ res.doc[1].Format = FormatText


-----------------------------------------------------------------------------
(* Binary decoding of damaged input: the caller encodes a document with
   AppendBinary, cuts the bytes short and overwrites one byte with a value
   that is no entry type, then decodes them as binary. *)

\* The layout of the binary encoding: the number of bytes of one entry, and
\* the offsets at which the decoder reads a type byte (the first byte of each
\* entry and each closing 0x08).
RECURSIVE binarySize(_)
RECURSIVE binarySizeAll(_)
binarySizeAll(nodes) ==
    IF nodes = <<>> THEN 0 ELSE binarySize(Head(nodes)) + binarySizeAll(Tail(nodes))

binarySize(n) ==
    1 + Len(n.Key) + 1 +
    (IF n.Kind = NodeObject THEN binarySizeAll(n.Children) + 1
     ELSE IF n.Kind = NodeString THEN Len(n.StringValue[1]) + 1
     ELSE 4)

RECURSIVE typeSlots(_, _)
typeSlots(nodes, base) ==
    IF nodes = <<>> THEN { base }
    ELSE { base }
         \cup (IF Head(nodes).Kind = NodeObject
               THEN typeSlots(Head(nodes).Children, base + 1 + Len(Head(nodes).Key) + 1)
               ELSE {})
         \cup typeSlots(Tail(nodes), base + binarySize(Head(nodes)))

\* Byte values that are no entry type: 0x03 and 0x09.
UnknownTypes == { binaryTypeNumber + 1, binaryTypeMapEnd + 1 }

\* data = data[:n]
TruncateWire(n) ==
    /\ phase = "encoded"
    /\ wire.err = "nil"
    /\ n < Len(wire.bytes)
    /\ wire' = [wire EXCEPT !.bytes = SubSeq(@, 1, n)]
    /\ phase' = "cut"
    /\ UNCHANGED <<doc, dopts, res, encVars, decVars, heapVars, poolVars>>

\* data[i] = b, for the offset i of a type byte
CorruptWire(i, b) ==
    /\ phase \in {"encoded", "cut"}
    /\ wire.err = "nil"
    /\ i \in 1..Len(wire.bytes)
    /\ i \in typeSlots(doc.Roots, 1)
    /\ wire.bytes = SubSeq(AppendBinary(doc, DefaultEncode).bytes, 1, Len(wire.bytes))
    /\ wire' = [wire EXCEPT !.bytes[i] = b]
    /\ UNCHANGED <<doc, phase, dopts, res, encVars, decVars, heapVars, poolVars>>

\* doc, err := ParseBytes(data, DecodeOptions{Format: FormatBinary})
ParseBinaryBytes ==
    /\ phase \in {"encoded", "cut"}
    /\ wire.err = "nil"
    /\ dopts' = DecodeOptions(FormatBinary, FALSE, 0, 0)
    /\ res' = decodeBytes(wire.bytes, dopts')
    /\ phase' = "decoded"
    /\ UNCHANGED <<doc, wire, encVars, decVars, heapVars, poolVars>>

NextDamaged ==
    \/ \E n \in LimitNodes : BuildAddRoot(n)
    \/ \E n \in LimitNodes : \E path \in objectPaths(doc.Roots) : BuildAdd(path, n)
    \/ AppendBinaryDoc
    \/ \E n \in 0..(Len(wire.bytes) - 1) : TruncateWire(n)
    \/ \E i \in 1..Len(wire.bytes) : \E b \in UnknownTypes : CorruptWire(i, b)
    \/ ParseBinaryBytes

SpecDamaged == InitCodec /\ [][NextDamaged]_vars

-----------------------------------------------------------------------------
(* Claims about damaged binary input *)

encodingOf(d) == AppendBinary(d, DefaultEncode).bytes

isPrefix(p, full) == Len(p) <= Len(full) /\ p = SubSeq(full, 1, Len(p))

properPrefix == isPrefix(wire.bytes, encodingOf(doc)) /\ Len(wire.bytes) < Len(encodingOf(doc))

\* C21: every non-empty proper prefix of a valid binary encoding (the input
\* ends inside a key, a string value, a uint32, an open object, or after a
\* complete root without the closing 0x08) fails with ErrBufferOverflow and
\* no other error; the empty input decodes to an empty document.
C21_Truncation ==
    phase = "decoded" /\ properPrefix =>
        IF wire.bytes = <<>>
        THEN res.err = "nil" /\ res.doc[1].Roots = <<>>
        ELSE res.err = "ErrBufferOverflow" /\ res.doc = <<>>

\* A document of an object with a Uint32 child, cut inside the four bytes of
\* the number.
C21_Witness ==
    /\ phase = "decoded" /\ properPrefix
    /\ doc.Roots = <<NodeAdd(NewObjectNode(kA), NewUint32Node(kA, uSample))>>
    /\ Len(wire.bytes) = Len(encodingOf(doc)) - 4
    /\ res.err = "ErrBufferOverflow"

\* Cut after a complete root, before the closing 0x08.
C21_MissingTerminator ==
    /\ phase = "decoded" /\ properPrefix
    /\ doc.Roots # <<>>
    /\ Len(wire.bytes) = Len(encodingOf(doc)) - 1
    /\ res.err = "ErrBufferOverflow"


\* The input is a prefix of the encoding of doc in which the byte at p, a
\* type byte, was replaced by a byte that is no entry type.
unknownTypeAt(p) ==
    /\ p \in typeSlots(doc.Roots, 1)
    /\ p <= Len(wire.bytes)
    /\ Len(wire.bytes) <= Len(encodingOf(doc))
    /\ wire.bytes[p] \in UnknownTypes
    /\ \A i \in 1..Len(wire.bytes) : i # p => wire.bytes[i] = encodingOf(doc)[i]

nulAfter(p) == \E i \in (p + 1)..Len(wire.bytes) : wire.bytes[i] = 0

\* C22: binary decoding that meets an entry type byte other than 0x00, 0x01,
\* 0x02 and 0x08 fails with ErrUnrecognizedType carrying that byte, wherever
\* the byte stands and whatever bytes, if any, follow it.
C22_UnknownTypeAnywhere ==
    \A p \in 1..Len(wire.bytes) :
        phase = "decoded" /\ unknownTypeAt(p) =>
            res.err = "ErrUnrecognizedType" /\ res.info = <<wire.bytes[p]>>

\* The unknown type byte is reported when a NUL-terminated key follows it.
C22_UnknownTypeBeforeKey ==
    \A p \in 1..Len(wire.bytes) :
        phase = "decoded" /\ unknownTypeAt(p) /\ nulAfter(p) =>
            res.err = "ErrUnrecognizedType" /\ res.info = <<wire.bytes[p]>>

\* With no NUL after the unknown type byte the key read fails first.
C22_UnknownTypeNoKey ==
    \A p \in 1..Len(wire.bytes) :
        phase = "decoded" /\ unknownTypeAt(p) /\ ~nulAfter(p) =>
            res.err = "ErrBufferOverflow"

\* An unknown type byte inside a nested object, with its key, is reported.
C22_NestedReported ==
    \E p \in 1..Len(wire.bytes) :
        /\ phase = "decoded" /\ unknownTypeAt(p) /\ nulAfter(p)
        /\ p > 1 /\ Len(doc.Roots) = 1
        /\ res.err = "ErrUnrecognizedType"

\* An unknown type byte that is the last byte of the input is not reported.
C22_LastByteNotReported ==
    /\ phase = "decoded" /\ wire.bytes # <<>>
    /\ unknownTypeAt(Len(wire.bytes))
    /\ res.err = "ErrBufferOverflow"


-----------------------------------------------------------------------------
(* Binary encoding of keys and values with an embedded NUL: a document is
   built and encoded whole (AppendBinary, or EncodeDocument on an Encoder
   over a buffer), or the manual calls are issued on a binary Encoder. *)

BinaryEncode == EncodeOptions(FormatBinary, FALSE, FALSE, FALSE)

NulNodes ==
    { NewObjectNode(kPlain), NewObjectNode(kNul),
      NewStringNode(kPlain, vPlain), NewStringNode(kPlain, kNul), NewStringNode(kNul, vPlain),
      NewUint32Node(kNul, uSample) }

InitNul ==
    /\ doc = NewDocument /\ phase = "build" /\ wire = NoWire
    /\ dopts = DecodeOptions(FormatAuto, FALSE, 0, 0)
    /\ res = DocFail("nil", <<>>)
    /\ opts = normalizeEncodeOptions(BinaryEncode)
    /\ manualDepth = 0 /\ manualBinaryUsed = FALSE /\ manualBinaryFinished = FALSE
    /\ w = <<>> /\ wcap = -1 /\ hist = <<>>
    /\ IdleDecoder
    /\ IdleHeap
    /\ IdlePool

\* var buf bytes.Buffer; err := NewEncoder(&buf, EncodeOptions{Format: FormatBinary}).EncodeDocument(doc)
EncodeDocumentDoc ==
    /\ phase = "build"
    /\ LET r == Run(encodeDocumentPlan(doc, normalizeEncodeOptions(BinaryEncode)), <<>>, -1)
       IN  wire' = [format |-> FormatBinary, bytes |-> r.out, err |-> r.err]
    /\ phase' = "written"
    /\ UNCHANGED <<doc, dopts, res, encVars, decVars, heapVars, poolVars>>

NextNul ==
    \/ hist = <<>> /\ \E n \in NulNodes : BuildAddRoot(n)
    \/ hist = <<>> /\ \E n \in NulNodes : \E path \in objectPaths(doc.Roots) : BuildAdd(path, n)
    \/ hist = <<>> /\ AppendBinaryDoc
    \/ hist = <<>> /\ EncodeDocumentDoc
    \/ doc.Roots = <<>> /\ phase = "build" /\ \E key \in {kPlain, kNul} : StartObject(key)
    \/ doc.Roots = <<>> /\ phase = "build" /\
          \E kv \in { <<kPlain, vPlain>>, <<kPlain, kNul>>, <<kNul, vPlain>> } : WriteString(kv[1], kv[2])
    \/ doc.Roots = <<>> /\ phase = "build" /\ \E key \in {kPlain, kNul} : WriteUint32(key, uSample)
    \/ doc.Roots = <<>> /\ phase = "build" /\ EndObject
    \/ doc.Roots = <<>> /\ phase = "build" /\ Close

SpecNul == InitNul /\ [][NextNul]_vars

-----------------------------------------------------------------------------
(* Claims about embedded NUL *)

RECURSIVE nodesHaveNul(_)
nodesHaveNul(nodes) ==
    \E i \in 1..Len(nodes) :
        \/ Contains(nodes[i].Key, 0)
        \/ nodes[i].Kind = NodeString /\ Contains(nodes[i].StringValue[1], 0)
        \/ nodesHaveNul(nodes[i].Children)

\* s occurs in out as a run of consecutive bytes
occurs(s, out) ==
    \E i \in 1..(Len(out) - Len(s) + 1) : SubSeq(out, i, i + Len(s) - 1) = s

callHasNul(c) ==
    Contains(c.key, 0) \/ (c.op = "WriteString" /\ Contains(c.value, 0))

\* C23: in binary mode a key or string value that contains 0x00 makes the
\* encode fail with ErrNullInString, on the whole-document calls
\* (EncodeDocument, AppendBinary) and on the manual calls (StartObject,
\* WriteString, WriteUint32); the string with the NUL is never written to
\* the output, and AppendBinary returns no bytes on that failure.
C23_NullInString ==
    /\ \A i \in 1..Len(hist) :
          hist[i].op \in ManualWrites =>
              IF callHasNul(hist[i])
              THEN hist[i].err = "ErrNullInString" /\ ~occurs(kNul, hist[i].out)
              ELSE hist[i].err = "nil"
    /\ ~occurs(kNul, w)
    /\ phase \in {"encoded", "written"} =>
          /\ ~occurs(kNul, wire.bytes)
          /\ IF nodesHaveNul(doc.Roots)
             THEN wire.err = "ErrNullInString" /\ (phase = "encoded" => wire.bytes = <<>>)
             ELSE wire.err = "nil"

\* AppendBinary of a document whose nested String child holds a NUL in its value.
C23_Witness ==
    /\ phase = "encoded"
    /\ doc.Roots = <<NodeAdd(NewObjectNode(kPlain), NewStringNode(kPlain, kNul))>>
    /\ wire = [format |-> FormatBinary, bytes |-> <<>>, err |-> "ErrNullInString"]

\* EncodeDocument on an Encoder stops at the NUL after writing what precedes it.
C23_EncoderStopsAtNul ==
    /\ phase = "written"
    /\ doc.Roots = <<NodeAdd(NewObjectNode(kPlain), NewStringNode(kPlain, kNul))>>
    /\ wire.err = "ErrNullInString"
    /\ wire.bytes = <<binaryTypeMapStart>> \o kPlain \o <<0, binaryTypeString>> \o kPlain \o <<0>>

\* Each manual call refuses a NUL.
C23_ManualRefused ==
    /\ Len(hist) = 3
    /\ hist[1].op = "StartObject" /\ hist[1].err = "ErrNullInString"
    /\ hist[2].op = "WriteString" /\ hist[2].key = kPlain /\ hist[2].err = "ErrNullInString"
    /\ hist[3].op = "WriteUint32" /\ hist[3].err = "ErrNullInString"


-----------------------------------------------------------------------------
(* EncodeDocument with and without EncodeOptions.Validate, on documents
   whose nodes have identity: nil pointers, cycles and Node literals with
   fields that do not belong to their kind. *)

\* The tree the encoder walks from pointer id: a nil pointer and a pointer
\* to a node that is already on the path from the root are cut off as
\* NilNode, and only an Object's children are followed (the children of a
\* leaf are kept as cut-off entries: the encoder never looks at them).
RECURSIVE heapNode(_, _, _)
heapNode(h, id, seen) ==
    IF id = 0 \/ id \in seen THEN NilNode
    ELSE IF h.nodes[id].Kind # NodeObject
         THEN [h.nodes[id] EXCEPT !.Children = [i \in 1..Len(h.nodes[id].Children) |-> NilNode]]
    ELSE [h.nodes[id] EXCEPT
            !.Children = [i \in 1..Len(h.nodes[id].Children) |->
                              heapNode(h, h.nodes[id].Children[i], seen \cup {id})]]

heapTree(h) ==
    [Format |-> FormatAuto, Roots |-> [i \in 1..Len(h.doc[1]) |-> heapNode(h, h.doc[1][i], {})]]

\* How the recursion of encodeTextNode / encodeBinaryNode over the pointers
\* ends: "nil" when every node was written, "invalid" when a node returned
\* ErrInvalidNodeState, "panic" when node.Kind was read through a nil
\* pointer, "overflow" when the recursion re-entered a node on its own path
\* and so never ends.
RECURSIVE encodeWalk(_, _, _)
RECURSIVE encodeWalkAll(_, _, _, _)
encodeWalkAll(h, ids, i, seen) ==
    IF i > Len(ids) THEN "nil"
    ELSE IF encodeWalk(h, ids[i], seen) # "nil" THEN encodeWalk(h, ids[i], seen)
    ELSE encodeWalkAll(h, ids, i + 1, seen)

encodeWalk(h, id, seen) ==
    IF id = 0 THEN "panic"
    ELSE IF id \in seen THEN "overflow"
    ELSE IF h.nodes[id].Kind = NodeObject
         THEN encodeWalkAll(h, h.nodes[id].Children, 1, seen \cup {id})
    ELSE IF h.nodes[id].Kind = NodeString
         THEN (IF h.nodes[id].StringValue = <<>> THEN "invalid" ELSE "nil")
    ELSE IF h.nodes[id].Kind = NodeUint32
         THEN (IF h.nodes[id].Uint32Value = <<>> THEN "invalid" ELSE "nil")
    ELSE "invalid"

\* [bytes, err] of NewEncoder(&buf, o).EncodeDocument(d) on the heap
\* document: bytes is what reached the writer.
encodeHeapDocument(h, o) ==
    IF h.doc = <<>> THEN [bytes |-> <<>>, err |-> "ErrInvalidNodeState"]
    ELSE LET r == Run(encodeDocumentPlan(heapTree(h), o), <<>>, -1)
             crash == encodeWalkAll(h, h.doc[1], 1, {})
         IN  IF (o.Validate /\ Validate(heapTree(h)) # "nil") \/ crash \in {"nil", "invalid"}
             THEN [bytes |-> r.out, err |-> r.err]
             ELSE [bytes |-> r.out, err |-> crash]

\* var buf bytes.Buffer
\* err := NewEncoder(&buf, EncodeOptions{Format: format, Validate: validate}).EncodeDocument(d)
EncodeHeapDocument(format, validate) ==
    /\ phase \in {"alloc", "link"}
    /\ opts' = normalizeEncodeOptions(EncodeOptions(format, FALSE, FALSE, validate))
    /\ wire' = [format |-> format, bytes |-> encodeHeapDocument(heap, opts').bytes,
                err |-> encodeHeapDocument(heap, opts').err]
    /\ phase' = "encoded"
    /\ UNCHANGED <<doc, dopts, res, heapVars, poolVars, decVars>>
    /\ UNCHANGED <<manualDepth, manualBinaryUsed, manualBinaryFinished, w, wcap, hist>>

NextValidated ==
    \/ \E n \in ConstructedNodes : AllocNode(n)
    \/ \E n \in LiteralNodes : AllocLiteral(n)
    \/ \E parent, child \in 1..MaxHeap : HeapAdd(parent, child)
    \/ \E node \in 1..MaxHeap : HeapAddRoot(node)
    \/ \E parent \in 1..MaxHeap : \E child \in 0..MaxHeap : CallerAppendsChild(parent, child)
    \/ CallerAppendsNilRoot
    \/ \E format \in {FormatText, FormatBinary} : \E validate \in BOOLEAN :
          EncodeHeapDocument(format, validate)

SpecValidated == InitGraph /\ [][NextValidated]_vars

-----------------------------------------------------------------------------
(* Claims about EncodeOptions.Validate *)

\* The nodes the encoder's recursion can reach from the roots.
RECURSIVE reachableFrom(_, _, _)
reachableFrom(h, ids, seen) ==
    LET new == { id \in ids : id # 0 /\ id \notin seen } IN
    IF new = {} THEN seen
    ELSE reachableFrom(h,
            UNION { IF h.nodes[id].Kind = NodeObject
                    THEN { h.nodes[id].Children[i] : i \in 1..Len(h.nodes[id].Children) }
                    ELSE {} : id \in new },
            seen \cup new)

encoded == reachableFrom(heap, { heap.doc[1][i] : i \in 1..Len(heap.doc[1]) }, {})

missingScalar(n) ==
    \/ n.Kind = NodeString /\ n.StringValue = <<>>
    \/ n.Kind = NodeUint32 /\ n.Uint32Value = <<>>

\* No nil pointer and no cycle: the encoder's recursion visits every node.
walkEnds == encodeWalkAll(heap, heap.doc[1], 1, {}) \in {"nil", "invalid"}

C24_MismatchWritten ==
    /\ phase = "encoded" /\ ~opts.Validate
    /\ heap.doc # <<>> /\ heap.doc[1] = <<1>>
    /\ heap.nodes[1].Kind = NodeObject /\ heap.nodes[1].Uint32Value # <<>>
    /\ DocumentValidate(heap) # NoError
    /\ wire.err = "nil" /\ wire.bytes # <<>>

\* Without the option a String leaf without its value fails after the bytes
\* of the entries before it were written.
C24_MissingScalarReached ==
    /\ phase = "encoded" /\ ~opts.Validate
    /\ heap.doc # <<>> /\ Len(heap.doc[1]) = 2
    /\ heap.doc[1][1] # 0 /\ heap.doc[1][2] # 0
    /\ ~missingScalar(heap.nodes[heap.doc[1][1]])
    /\ heap.nodes[heap.doc[1][2]].Kind = NodeString /\ missingScalar(heap.nodes[heap.doc[1][2]])
    /\ wire.err = "ErrInvalidNodeState" /\ wire.bytes # <<>>


-----------------------------------------------------------------------------
(* Text parsing of arbitrary input: the caller writes the text rune by rune
   and parses it as Text. *)

TextRunes == { chQuote, chBackslash, chLBrace, chRBrace, chLF, chPad }

\* text += string(r)
InputRune(r) ==
    /\ phase = "input"
    /\ Len(wire.bytes) < MaxChunks
    /\ wire' = [wire EXCEPT !.bytes = Append(@, r)]
    /\ UNCHANGED <<doc, phase, dopts, res, encVars, decVars, heapVars, poolVars>>

\* doc, err := ParseString(text)
ParseString ==
    /\ phase = "input"
    /\ dopts' = DecodeOptions(FormatText, FALSE, 0, 0)
    /\ res' = decodeBytes(wire.bytes, dopts')
    /\ phase' = "decoded"
    /\ UNCHANGED <<doc, wire, encVars, decVars, heapVars, poolVars>>

NextText ==
    \/ \E r \in TextRunes : InputRune(r)
    \/ ParseString

SpecText == InitDetect /\ [][NextText]_vars

-----------------------------------------------------------------------------
(* Claims about the positions in text errors *)

TextErrors ==
    { "ErrUnexpectedEOFInQuotedString", "ErrUnexpectedEOFInEscapeSequence",
      "ErrUnexpectedCharacter", "ErrExpectedStringKey", "ErrExpectedValueOrObject",
      "ErrExpectedObjectStart", "ErrUnexpectedEOFInObject" }

\* Line (from 1) and column (from 0) of the rune at index i of the input;
\* index Len(in) + 1 is the end of the input.
lineOf(in, i) == 1 + Cardinality({ j \in 1..(i - 1) : in[j] = chLF })

colOf(in, i) == Cardinality({ j \in 1..(i - 1) : \A k \in j..(i - 1) : in[k] # chLF })

\* info is the position of a rune of the set among, or of the end of input
\* when orEnd is TRUE.
pointsAt(in, info, among, orEnd) ==
    /\ Len(info) = 2
    /\ \E i \in 1..(Len(in) + 1) :
          /\ info = <<lineOf(in, i), colOf(in, i)>>
          /\ IF i <= Len(in) THEN in[i] \in among ELSE orEnd

\* C25: every error of the text lexer and the text parser carries the line
\* and column of the offending token.
C25_EveryTextErrorHasPosition ==
    phase = "decoded" /\ res.err \in TextErrors => Len(res.info) = 2

\* The parser's "expected" errors carry the position of the token they refuse.
C25_ExpectedErrorsHavePosition ==
    phase = "decoded" =>
        /\ res.err = "ErrExpectedStringKey" =>
              pointsAt(wire.bytes, res.info, {chLBrace, chRBrace}, FALSE)
        /\ res.err = "ErrExpectedValueOrObject" =>
              pointsAt(wire.bytes, res.info, {chRBrace}, TRUE)
        /\ res.err \notin {"ErrUnexpectedCharacter", "ErrExpectedObjectStart"}

\* An unterminated quoted string on the second line: the error has no position.
C25_QuotedEOFWithoutPosition ==
    /\ phase = "decoded"
    /\ wire.bytes = <<chLF, chQuote, chPad>>
    /\ res.err = "ErrUnexpectedEOFInQuotedString" /\ res.info = <<>>

\* An unterminated escape sequence: the error has no position.
C25_EscapeEOFWithoutPosition ==
    /\ phase = "decoded"
    /\ res.err = "ErrUnexpectedEOFInEscapeSequence" /\ res.info = <<>>

\* An object that is not closed: the error has no position.
C25_ObjectEOFWithoutPosition ==
    /\ phase = "decoded"
    /\ res.err = "ErrUnexpectedEOFInObject" /\ res.info = <<>>

\* "k" } on the second line: expected value or object at line 2, col 1.
C25_PositionReported ==
    /\ phase = "decoded"
    /\ wire.bytes = <<chLF, chPad, chRBrace>>
    /\ res.err = "ErrExpectedValueOrObject" /\ res.info = <<2, 1>>


-----------------------------------------------------------------------------
(* Binary decoders on their own goroutines, sharing binaryStringBufferPool.
   Each decoder reads the NUL-terminated strings of its own input with
   readNullTerminatedString; one step is one pool operation or one turn of
   the byte loop.  scratch[id] is the backing array behind buffer pointer
   id; readers[g] holds the locals of goroutine g: its input and read
   position, the pointer it got from the pool (0 for none), the length of
   its slice buf, the strings returned so far and the error. *)

MaxDecoders == 2

PoolInputs ==
    { kA \o <<0>> \o vPlain \o vPlain \o <<0>>,
      vPlain \o <<0>> \o kB \o <<0>>,
      kB \o <<0>> \o kA }

Goroutines == 1..MaxDecoders

\* A Get that leaves the buffer in the pool.
poolAfterGetKeeps(pool, id) == pool

\* sync.Pool.Get hands the buffer to one caller: it is no longer in the pool.
poolAfterGet(pool, id) == pool \ {id}

\* buf = append(buf, b) on a slice of length len over the array arr
appendByte(arr, len, b) ==
    [i \in 1..(IF len + 1 > Len(arr) THEN len + 1 ELSE Len(arr)) |->
        IF i = len + 1 THEN b ELSE arr[i]]

InitPool ==
    /\ IdleEncoder /\ IdleDecoder /\ IdleHeap
    /\ doc = NewDocument /\ phase = "idle" /\ wire = NoWire
    /\ dopts = DecodeOptions(FormatBinary, FALSE, 0, 0)
    /\ res = DocFail("nil", <<>>)
    /\ binaryStringBufferPool = {}
    /\ scratch = <<>>
    /\ readers \in [Goroutines ->
          { [in |-> in, pos |-> 1, pc |-> "call", bufPtr |-> 0, len |-> 0,
             out |-> <<>>, err |-> "nil"] : in \in PoolInputs }]

\* bufPtr := binaryStringBufferPool.Get().(*[]byte); buf := (*bufPtr)[:0]
\* Get returns a buffer of the pool, or a new one from New.
PoolGet(g) ==
    /\ readers[g].pc = "call"
    /\ \/ \E id \in binaryStringBufferPool :
             /\ binaryStringBufferPool' = poolAfterGet(binaryStringBufferPool, id)
             /\ readers' = [readers EXCEPT ![g].bufPtr = id, ![g].len = 0, ![g].pc = "loop"]
             /\ UNCHANGED scratch
       \/ /\ Len(scratch) < MaxDecoders
          /\ scratch' = Append(scratch, <<>>)
          /\ readers' = [readers EXCEPT ![g].bufPtr = Len(scratch) + 1, ![g].len = 0,
                                        ![g].pc = "loop"]
          /\ UNCHANGED binaryStringBufferPool
    /\ UNCHANGED <<encVars, docVars, decVars, heapVars>>

\* One turn of the loop: ReadByte, then return at EOF or NUL, else append.
PoolReadByte(g) ==
    /\ readers[g].pc = "loop"
    /\ IF readers[g].pos > Len(readers[g].in) THEN
           /\ readers' = [readers EXCEPT ![g].err = "ErrBufferOverflow", ![g].pc = "defer"]
           /\ UNCHANGED scratch
       ELSE IF readers[g].in[readers[g].pos] = 0 THEN
           /\ readers' = [readers EXCEPT
                  ![g].out = Append(@, SubSeq(scratch[readers[g].bufPtr], 1, readers[g].len)),
                  ![g].pos = @ + 1, ![g].pc = "defer"]
           /\ UNCHANGED scratch
       ELSE
           /\ scratch' = [scratch EXCEPT ![readers[g].bufPtr] =
                             appendByte(@, readers[g].len, readers[g].in[readers[g].pos])]
           /\ readers' = [readers EXCEPT ![g].len = @ + 1, ![g].pos = @ + 1]
    /\ UNCHANGED <<binaryStringBufferPool, encVars, docVars, decVars, heapVars>>

\* The deferred function: *bufPtr = buf; binaryStringBufferPool.Put(bufPtr).
\* The decoder then reads its next string, or is done at the end of its
\* input or after an error.
PoolPut(g) ==
    /\ readers[g].pc = "defer"
    /\ binaryStringBufferPool' = binaryStringBufferPool \cup {readers[g].bufPtr}
    /\ readers' = [readers EXCEPT
           ![g].bufPtr = 0,
           ![g].pc = IF readers[g].err # "nil" \/ readers[g].pos > Len(readers[g].in)
                     THEN "done" ELSE "call"]
    /\ UNCHANGED <<scratch, encVars, docVars, decVars, heapVars>>

NextPool ==
    \/ \E g \in Goroutines : PoolGet(g)
    \/ \E g \in Goroutines : PoolReadByte(g)
    \/ \E g \in Goroutines : PoolPut(g)

SpecPool == InitPool /\ [][NextPool]_vars

-----------------------------------------------------------------------------
(* Claims about the scratch-buffer pool *)

\* What a decoder running alone returns on input in from position pos:
\* the strings read, and the error that ended the reading.
RECURSIVE aloneFrom(_, _, _)
aloneFrom(in, pos, acc) ==
    IF pos > Len(in) THEN [out |-> acc, err |-> "nil"]
    ELSE LET r == readNullTerminatedString(in, pos, <<>>) IN
         IF r.err # "nil" THEN [out |-> acc, err |-> r.err]
         ELSE aloneFrom(in, r.pos, Append(acc, r.value))

alone(in) == aloneFrom(in, 1, <<>>)

holds(g) == readers[g].bufPtr # 0

\* C26: decoders that run concurrently on independent inputs and share the
\* scratch-buffer pool each get the result of running alone: a buffer is
\* held by at most one decoder at a time and is not in the pool while held,
\* every returned string equals the bytes of the decoder's own input, and a
\* string already returned is never altered by a later reuse of its buffer.
C26_PoolIsSafe ==
    /\ \A g, h \in Goroutines :
          holds(g) /\ holds(h) /\ g # h => readers[g].bufPtr # readers[h].bufPtr
    /\ \A g \in Goroutines : holds(g) => readers[g].bufPtr \notin binaryStringBufferPool
    /\ \A g \in Goroutines :
          /\ isPrefix(readers[g].out, alone(readers[g].in).out)
          /\ readers[g].pc = "loop" =>
                SubSeq(scratch[readers[g].bufPtr], 1, readers[g].len)
                   = SubSeq(readers[g].in, readers[g].pos - readers[g].len, readers[g].pos - 1)
          /\ readers[g].pc = "done" =>
                /\ readers[g].out = alone(readers[g].in).out
                /\ readers[g].err = alone(readers[g].in).err

\* Both decoders are done, each with its own strings, and one buffer served
\* both of them.
C26_Witness ==
    /\ \A g \in Goroutines : readers[g].pc = "done" /\ readers[g].out # <<>>
    /\ readers[1].out # readers[2].out
    /\ Len(scratch) = 1

\* Two decoders are inside the byte loop at the same time, each with bytes
\* in its own buffer.
C26_BothReading ==
    /\ readers[1].pc = "loop" /\ readers[2].pc = "loop"
    /\ readers[1].len > 0 /\ readers[2].len > 0


-----------------------------------------------------------------------------
(* Decoding of encoded and of cut-off documents with every way of choosing
   the format: ParseAuto, ParseBytes with the format the bytes were written
   in, and ParseBytes with Format Binary. *)

NextDecoded ==
    \/ \E n \in AutoNodes : BuildAddRoot(n)
    \/ \E n \in AutoNodes : \E path \in objectPaths(doc.Roots) : BuildAdd(path, n)
    \/ WriteStringDoc
    \/ AppendBinaryDoc
    \/ \E n \in 0..(Len(wire.bytes) - 1) : TruncateWire(n)
    \/ ParseAuto
    \/ ParseBytes(DefaultDecode(FormatAuto))
    \/ ParseBinaryBytes

SpecDecoded == InitCodec /\ [][NextDecoded]_vars

-----------------------------------------------------------------------------
(* Claims about decoded documents *)

RECURSIVE kindsIn(_)
kindsIn(nodes) ==
    UNION { {nodes[i].Kind} \cup kindsIn(nodes[i].Children) : i \in 1..Len(nodes) }

\* The format the decode ran: the one asked for, or for Auto the detected one.
formatRun ==
    IF dopts.Format # FormatAuto THEN dopts.Format
    ELSE IF classifiedBinary(wire.bytes) THEN FormatBinary ELSE FormatText

\* A document as the text decoder returns it from the text encoding of d:
\* every Uint32 leaf has become a String leaf holding the decimal digits.
RECURSIVE asTextRead(_)
asTextRead(nodes) ==
    [i \in 1..Len(nodes) |->
        IF nodes[i].Kind = NodeUint32
        THEN NewStringNode(nodes[i].Key, formatUint(nodes[i].Uint32Value[1]))
        ELSE [nodes[i] EXCEPT !.Children = asTextRead(@)]]

\* C27: every Document returned by a successful text or binary decode is a
\* well-formed tree that passes Validate, its Format tag is the format that
\* was decoded (Text or Binary, never Auto), and a text decode yields only
\* Object and String nodes whose scalars hold the text of the token.
C27_DecodedWellFormed ==
    phase = "decoded" /\ res.err = "nil" =>
        /\ Validate(res.doc[1]) = "nil"
        /\ res.doc[1].Format \in {FormatText, FormatBinary}
        /\ res.doc[1].Format = formatRun
        /\ formatRun = FormatText => kindsIn(res.doc[1].Roots) \subseteq {NodeObject, NodeString}
        /\ formatRun = FormatText /\ wire.format = FormatText /\ wire.bytes = AppendText(doc, DefaultEncode).bytes =>
              res.doc[1].Roots = asTextRead(doc.Roots)

\* A text decode of an object with a Uint32 child: the number comes back as
\* a String leaf with its digits.
C27_Witness ==
    /\ phase = "decoded" /\ res.err = "nil" /\ dopts.Format = FormatAuto
    /\ doc.Roots = <<NodeAdd(NewObjectNode(kA), NewUint32Node(kA, uSample))>>
    /\ res.doc[1].Format = FormatText
    /\ res.doc[1].Roots[1].Children[1].Kind = NodeString
    /\ Validate(res.doc[1]) = "nil"

\* A binary decode that returns all three kinds of node.
C27_BinaryDecoded ==
    /\ phase = "decoded" /\ res.err = "nil"
    /\ res.doc[1].Format = FormatBinary
    /\ kindsIn(res.doc[1].Roots) = {NodeObject, NodeString, NodeUint32}


-----------------------------------------------------------------------------
(* Re-encoding with default options: the caller builds a document, or
   decodes one from its text or binary encoding, and writes it with
   NewEncoder(&buf, EncodeOptions{}).EncodeDocument. *)

\* The document handed to EncodeDocument: the decoded one, or the one built.
encodedDocument == IF phase = "decoded" THEN res.doc[1] ELSE doc

NextReencode ==
    \/ hist = <<>> /\ \E n \in LimitNodes : BuildAddRoot(n)
    \/ hist = <<>> /\ \E n \in LimitNodes : \E path \in objectPaths(doc.Roots) : BuildAdd(path, n)
    \/ hist = <<>> /\ WriteStringDoc
    \/ hist = <<>> /\ AppendBinaryDoc
    \/ hist = <<>> /\ ParseBytes(DefaultDecode(FormatAuto))
    \/ hist = <<>> /\ phase \in {"build", "decoded"} /\ res.err = "nil"
          /\ EncodeDocument(encodedDocument)

SpecReencode == InitCodec /\ [][NextReencode]_vars

-----------------------------------------------------------------------------
(* Claims about the output format of EncodeDocument *)

Reencoded == hist # <<>> /\ hist[1].op = "EncodeDocument"

\* C28: with EncodeOptions.Format Auto, EncodeDocument writes the document
\* in the format of its Format tag when the tag is Text or Binary and in
\* Text when the tag is Auto, so a document decoded from binary and
\* re-encoded through NewEncoder with default options is written as binary.
C28_AutoFollowsDocumentTag ==
    Reencoded =>
        /\ hist[1].err = "nil"
        /\ w = IF encodedDocument.Format = FormatBinary
               THEN AppendBinary(encodedDocument, DefaultEncode).bytes
               ELSE AppendText(encodedDocument, DefaultEncode).bytes

\* An Encoder made by NewEncoder with default options writes text, whatever
\* the document's tag.
C28_DefaultEncoderWritesText ==
    Reencoded =>
        /\ opts.Format = FormatText
        /\ hist[1].err = "nil"
        /\ w = AppendText(encodedDocument, DefaultEncode).bytes

\* A document decoded from binary, with its tag Binary, is written as text.
C28_BinaryWrittenAsText ==
    /\ Reencoded /\ phase = "decoded"
    /\ res.doc[1].Format = FormatBinary /\ res.doc[1].Roots # <<>>
    /\ w = AppendText(res.doc[1], DefaultEncode).bytes
    /\ w # AppendBinary(res.doc[1], DefaultEncode).bytes


-----------------------------------------------------------------------------
(* One Decoder over the text or binary encoding of a document, created with
   every format selector (valid or not) and with strict mode on and off,
   then called again and again through DecodeDocument and NextEvent. *)

DecoderOptionSet ==
    { DecodeOptions(format, strict, 0, 0) :
        format \in {FormatAuto, FormatText, FormatBinary, FormatBinary + 1}, strict \in BOOLEAN }

NextDecoder ==
    \/ \E n \in LimitNodes : BuildAddRoot(n)
    \/ \E n \in LimitNodes : \E path \in objectPaths(doc.Roots) : BuildAdd(path, n)
    \/ WriteStringDoc
    \/ AppendBinaryDoc
    \/ \E o \in DecoderOptionSet : NewDecoder(o)
    \/ DecodeDocument
    \/ NextEvent

SpecDecoder == InitCodec /\ [][NextDecoder]_vars

-----------------------------------------------------------------------------
(* Claims about the Decoder's outcome *)

hasOutcome == decoded # <<>> \/ decodeErr.err # "nil"

\* The outcome is the one of decoding the input once, and what the calls
\* returned agrees with it.
C29_Outcome ==
    /\ reads <= 1
    /\ hasOutcome => reads = 1
    /\ hasOutcome =>
          /\ decoded = decodeStream(wire.bytes, dopts).doc
          /\ decodeErr.err = decodeStream(wire.bytes, dopts).err
    /\ decodeErr.err # "nil" =>
          /\ decoded = <<>> /\ events = <<>>
          /\ \A i \in 1..Len(emitted) : emitted[i] = Returned(EmptyEvent, decodeErr.err)
          /\ res.err \in {"nil", decodeErr.err} /\ res.doc = <<>>
    /\ decoded # <<>> =>
          /\ decodeErr = NoError
          /\ res.err = "nil" /\ res.doc \in {<<>>, decoded}
          /\ isPrefix(eventsOf(emitted),
                      <<Event(EventDocumentStart, <<>>, 0, <<>>, <<>>)>>
                      \o traversal(decoded[1].Roots, 1)
                      \o <<Event(EventDocumentEnd, <<>>, 0, <<>>, <<>>)>>)

\* Once there is an outcome no call changes it or reads the input, and
\* DecodeDocument returns it.
C29_Kept ==
    hasOutcome =>
        /\ decoded' = decoded /\ decodeErr' = decodeErr /\ reads' = reads
        /\ res' # res => res' = [err |-> decodeErr.err, info |-> decodeErr.info, doc |-> decoded]

\* C29: a Decoder decodes its input at most once and its outcome is
\* terminal: after a success every later DecodeDocument returns the same
\* Document without reading again and NextEvent traverses that document;
\* after a failure every later DecodeDocument and NextEvent returns the same
\* error with no document and no event, never io.EOF.
C29_DecodeOnce == [](C29_Outcome) /\ [][C29_Kept]_vars

\* A strict decode fails on a duplicate root key; DecodeDocument and two
\* NextEvent calls have returned that error.
C29_Witness ==
    /\ phase = "decoder" /\ dopts.Strict
    /\ decodeErr.err = "ErrDuplicateKeyInStrictMode"
    /\ res.err = decodeErr.err /\ res.doc = <<>>
    /\ Len(emitted) = MaxNextCalls
    /\ reads = 1

\* An invalid format selector is a terminal failure as well.
C29_InvalidFormatKept ==
    /\ phase = "decoder"
    /\ decodeErr.err = "ErrInvalidFormat"
    /\ res.err = "ErrInvalidFormat"
    /\ Len(emitted) = MaxNextCalls

\* After a success DecodeDocument has returned the document whose events
\* NextEvent is in the middle of.
C29_SameDocument ==
    /\ phase = "decoder"
    /\ decoded # <<>> /\ res.doc = decoded
    /\ events # <<>> /\ ~events[1].finished
    /\ Len(eventsOf(emitted)) > 2


-----------------------------------------------------------------------------
(* Claims about failed manual calls *)

succeeded(op) == Cardinality({ i \in 1..Len(hist) : hist[i].op = op /\ hist[i].err = "nil" })

\* C30: a manual call that returns an error leaves the open-object depth as
\* it was before the call, so in every reachable state the depth is the
\* number of successful StartObject calls minus the number of successful
\* EndObject calls.
C30_FailedCallKeepsDepth ==
    /\ \A i \in 1..Len(hist) : hist[i].err # "nil" => DepthAfter(i) = hist[i].depth0
    /\ manualDepth = succeeded("StartObject") - succeeded("EndObject")

\* Every failed call but a binary StartObject leaves the depth alone.
C30_OtherFailuresKeepDepth ==
    \A i \in 1..Len(hist) :
        hist[i].err # "nil" /\ ~(hist[i].op = "StartObject" /\ manualFormat = FormatBinary) =>
            DepthAfter(i) = hist[i].depth0

\* A binary StartObject with a NUL in its key fails and still opens an object.
C30_FailedStartObjectCounted ==
    /\ manualFormat = FormatBinary
    /\ Len(hist) = 1
    /\ hist[1].op = "StartObject" /\ hist[1].key = kNul /\ hist[1].err = "ErrNullInString"
    /\ hist[1].depth0 = 0 /\ manualDepth = 1

=============================================================================
